---------------------------- MODULE Spec2Model ----------------------------
(***************************************************************************)
(* Colorado Habitat Exchange HQT (co-hqt): the anthropogenic-disturbance   *)
(* raster engine of cohqt.py and the parts of the Debit/Credit tools that  *)
(* drive it.                                                               *)
(*                                                                         *)
(* Rasters.  A raster is a function from Cells to integers; the analysis   *)
(* extent is a strip of NCells cells of width CellSize, so the Euclidean   *)
(* distance between two cells is |i - j| * CellSize.  NoData is a value    *)
(* outside every value range.                                              *)
(*                                                                         *)
(* Numbers.  Real-valued rasters are kept as exact decimal fractions: a    *)
(* scaled raster [s |-> scale, v |-> raster] stands for the real raster    *)
(* v / s.  Sums, differences, products, minima and the division by 100    *)
(* are exact.  The only rounded operation is the sigmoid of the decay      *)
(* branch, which is computed in fixed point (Exp to 1e-6, the sigmoid to   *)
(* 1e-3, the weighted value to one tenth on the 0..100 scale).             *)
(***************************************************************************)
EXTENDS Integers, Sequences, FiniteSets, TLC

\* Number of cells of the analysis extent.
NCells == 4

\* Cell size of the snap raster (GetRasterProperties CELLSIZEX), map units.
CellSize == 30

\* The NoData marker of a raster cell.
NoData == -2000000000

Cells == 1..NCells

\* Python's None where a raster is expected (a subtype that contributes no
\* surface, a call without mask).
None == [s |-> 0, v |-> <<>>]

\* Python's None where the name of a feature raster is expected.
NoFeatures == "None"

Abs(x) == IF x < 0 THEN -x ELSE x

Min2(a, b) == IF a < b THEN a ELSE b

RECURSIVE SetMin(_)
SetMin(S) ==
    LET x == CHOOSE y \in S : TRUE
    IN  IF S = {x} THEN x ELSE Min2(x, SetMin(S \ {x}))

-----------------------------------------------------------------------------
(* Map algebra (arcpy.sa) on plain rasters.                                *)

\* IsNull(r): 1 where r is NoData, 0 elsewhere; never NoData itself.
IsNull(r) == [c \in Cells |-> IF r[c] = NoData THEN 1 ELSE 0]

\* Con(cond, t, f): NoData where cond is NoData, t where cond is non-zero,
\* f elsewhere.
Con(cond, t, f) ==
    [c \in Cells |-> IF cond[c] = NoData THEN NoData
                     ELSE IF cond[c] # 0 THEN t[c] ELSE f[c]]

\* A raster holding the constant k in every cell.
ConstRaster(k) == [c \in Cells |-> k]

\* raster == k, cell by cell (NoData where the raster is NoData).
EqualTo(r, k) ==
    [c \in Cells |-> IF r[c] = NoData THEN NoData
                     ELSE IF r[c] = k THEN 1 ELSE 0]

\* EucDistance(in_source_data, maximum_distance, cell_size): the distance
\* from each cell to the nearest source cell (a cell with any value), NoData
\* where that distance exceeds maximum_distance or no source exists.
EucDistance(src, maxDist, cellSize) ==
    LET sources == {s \in Cells : src[s] # NoData}
        dist(c) == SetMin({Abs(c - s) * cellSize : s \in sources})
    IN  [c \in Cells |-> IF sources = {} THEN NoData
                         ELSE IF dist(c) > maxDist THEN NoData
                         ELSE dist(c)]

-----------------------------------------------------------------------------
(* Fixed-point exponential and sigmoid of the decay branch.                *)

\* e^n for n = 0..6, in thousandths.
ExpPosMilli == <<1000, 2718, 7389, 20086, 54598, 148413, 403429>>

\* e^(-n) for n = 1..6, in millionths.
ExpNegMicro == <<367879, 135335, 49787, 18316, 6738, 2479>>

\* Taylor series of e^(r/1000) for 0 <= r < 1000, in thousandths.
RECURSIVE ExpSeries(_, _, _, _)
ExpSeries(r, k, term, acc) ==
    IF k > 9 THEN acc
    ELSE LET t == (term * r) \div (k * 1000)
         IN  ExpSeries(r, k + 1, t, acc + t)

ExpFracMilli(r) == ExpSeries(r, 1, 1000, 1000)

\* Exp(x) for x in thousandths, -6000 <= x < 7000; the result in millionths.
ExpMicro(x) ==
    LET n == x \div 1000
        r == x % 1000
    IN  IF n >= 0 THEN ExpPosMilli[n + 1] * ExpFracMilli(r)
        ELSE (ExpNegMicro[-n] * ExpFracMilli(r)) \div 1000

\* 1 / (1 + Exp(x)), x in thousandths; the result in thousandths, rounded.
SigmoidMilli(x) ==
    LET den == 1000000 + ExpMicro(x)
    IN  (1000000000 + (den \div 2)) \div den


-----------------------------------------------------------------------------
(* Scaled rasters: [s |-> scale, v |-> raster] stands for v / s.           *)

SR(scale, raster) == [s |-> scale, v |-> raster]

\* a * b, cell by cell; NoData where either operand is NoData.
SMul(a, b) ==
    SR(a.s * b.s,
       [c \in Cells |-> IF a.v[c] = NoData \/ b.v[c] = NoData THEN NoData
                        ELSE a.v[c] * b.v[c]])

\* The same real raster written on the scale S (a multiple of a.s).
SRescale(a, S) ==
    SR(S, [c \in Cells |-> IF a.v[c] = NoData THEN NoData
                           ELSE a.v[c] * (S \div a.s)])

\* raster / k for a positive integer k.
SDivide(a, k) == SR(a.s * k, a.v)

\* The larger of two scales one of which divides the other.
CommonScale(a, b) == IF a.s >= b.s THEN a.s ELSE b.s

\* The real value of cell c of a, on the scale S.
ValueAt(a, c, S) ==
    IF a.v[c] = NoData THEN NoData ELSE a.v[c] * (S \div a.s)

\* a < b, cell by cell: 1, 0, or NoData where either operand is NoData.
SLessThan(a, b) ==
    LET S == CommonScale(a, b)
    IN  [c \in Cells |-> IF a.v[c] = NoData \/ b.v[c] = NoData THEN NoData
                         ELSE IF ValueAt(a, c, S) < ValueAt(b, c, S) THEN 1
                         ELSE 0]

\* Con(cond, t, f) on scaled rasters: the result is written on one scale.
SCon(cond, t, f) ==
    LET S == CommonScale(t, f)
    IN  SR(S, Con(cond, SRescale(t, S).v, SRescale(f, S).v))

\* CellStatistics(rasters, "MINIMUM"): the least value among the rasters
\* that have data in the cell (ignore_nodata = "DATA"), NoData where none
\* has.  The rasters of the list are on one scale.
CellStatisticsMinimum(rasters) ==
    LET vals(c) == {rasters[i].v[c] : i \in 1..Len(rasters)} \ {NoData}
    IN  SR(rasters[1].s,
           [c \in Cells |-> IF vals(c) = {} THEN NoData ELSE SetMin(vals(c))])

\* Two scaled rasters that stand for the same real raster.
SameRaster(a, b) ==
    LET S == CommonScale(a, b)
    IN  \A c \in Cells : ValueAt(a, c, S) = ValueAt(b, c, S)

-----------------------------------------------------------------------------
(* CalcAnthroDisturbance and its inner functions (cohqt.py).               *)

\* Tenths: subtype rasters (0..100 scale) are written on the scale 10.
Tenths == 10

\* A variant of DecayValue whose exponent lacks the steepness factor 5.
DecayValue_Gentle(dist, distance, weight) ==
    LET x == ((dist * 1000) \div (distance \div 2)) - 1000
    IN  100 * Tenths - ((SigmoidMilli(x) * weight * Tenths + 500) \div 1000)

\* The decay value of one cell at distance dist from the nearest feature:
\* 100 - (1/(1 + Exp(((dist / (distance/2)) - 1) * 5))) * weight, in tenths.
DecayValue(dist, distance, weight) ==
    LET x == (((dist * 1000) \div (distance \div 2)) - 1000) * 5
    IN  100 * Tenths - ((SigmoidMilli(x) * weight * Tenths + 500) \div 1000)

\* A variant of DecayRaster that fills the cells beyond the cap with 0.
DecayRaster_ZeroFill(outEucDist, distance, weight) ==
    [c \in Cells |-> IF outEucDist[c] = NoData THEN 0
                     ELSE 100 * Tenths
                          - ((SigmoidMilli((((outEucDist[c] * 1000)
                                               \div (distance \div 2))
                                            - 1000) * 5)
                              * weight * Tenths + 500) \div 1000)]

\* The decay branch: 100 where the capped distance is NoData
\* (Con(IsNull(tmp1), 100, tmp1)), the decay value elsewhere.
DecayRaster(outEucDist, distance, weight) ==
    [c \in Cells |-> IF outEucDist[c] = NoData THEN 100 * Tenths
                     ELSE DecayValue(outEucDist[c], distance, weight)]

\* The direct branch: 100 - (Con(IsNull(f), 0, f) * weight).
DirectRaster(AnthroFeatures, weight) ==
    [c \in Cells |->
        (100 - ((IF AnthroFeatures[c] = NoData THEN 0
                 ELSE AnthroFeatures[c]) * weight)) * Tenths]

\* A variant of calcSubtypeDisturbance that returns a neutral surface of 100
\* for a subtype with neither distance nor weight.
calcSubtypeDisturbance_Neutral(AnthroFeatures, distance, weight, cellSize) ==
    IF distance > 0 THEN
        SR(Tenths,
           [c \in Cells |->
               IF EucDistance(AnthroFeatures, distance, cellSize)[c] = NoData
               THEN 100 * Tenths
               ELSE 100 * Tenths
                    - ((SigmoidMilli(
                            (((EucDistance(AnthroFeatures, distance,
                                           cellSize)[c] * 1000)
                              \div (distance \div 2)) - 1000) * 5)
                        * weight * Tenths + 500) \div 1000)])
    ELSE IF weight > 0 THEN
        SR(Tenths,
           [c \in Cells |->
               (100 - ((IF AnthroFeatures[c] = NoData THEN 0
                        ELSE AnthroFeatures[c]) * weight)) * Tenths])
    ELSE SR(Tenths, ConstRaster(100 * Tenths))

\* calcSubtypeDisturbance: the subtype raster (in tenths) of a presence
\* raster, or None when the subtype has neither distance nor weight.
calcSubtypeDisturbance(AnthroFeatures, distance, weight, cellSize) ==
    IF distance > 0 THEN
        SR(Tenths, DecayRaster(EucDistance(AnthroFeatures, distance,
                                           cellSize),
                               distance, weight))
    ELSE IF weight > 0 THEN SR(Tenths, DirectRaster(AnthroFeatures, weight))
    ELSE None

\* A variant of calcTypeDisturbance with the statistic MAXIMUM.
calcTypeDisturbance_Maximum(subtypeRasters) ==
    LET vals(c) == {subtypeRasters[i].v[c] : i \in 1..Len(subtypeRasters)}
                       \ {NoData}
    IN  SR(subtypeRasters[1].s * 100,
           [c \in Cells |->
               IF vals(c) = {} THEN NoData
               ELSE CHOOSE x \in vals(c) : \A y \in vals(c) : y <= x])

\* calcTypeDisturbance: the cellwise minimum of the subtype rasters, / 100.
calcTypeDisturbance(subtypeRasters) ==
    LET typeRaster100 == CellStatisticsMinimum(subtypeRasters)
    IN  SDivide(typeRaster100, 100)

\* np.prod(np.array(rasters)): the product of the list, left to right.
RECURSIVE ProdRasters(_)
ProdRasters(rasters) ==
    IF Len(rasters) = 1 THEN rasters[1]
    ELSE SMul(ProdRasters(SubSeq(rasters, 1, Len(rasters) - 1)),
              rasters[Len(rasters)])

\* A variant of multiplyRasters that leaves the lakes index out.
multiplyRasters_NoLakes(rasterList, AnthroDisturbanceType, dist_field, Agriculture_Index, Lakes, emptyRaster) ==
    IF AnthroDisturbanceType \in {"Pre", "Post"} THEN
        IF dist_field = "GrSG_Dist"
        THEN ProdRasters(rasterList \o <<Agriculture_Index>>)
        ELSE ProdRasters(rasterList \o <<emptyRaster>>)
    ELSE ProdRasters(rasterList \o <<emptyRaster>>)

\* A variant of multiplyRasters that returns a surface of ones when no Type
\* surface is given.
multiplyRasters_Ones(rasterList, AnthroDisturbanceType, dist_field, Agriculture_Index, Lakes, emptyRaster) ==
    IF rasterList = <<>> THEN SR(1, ConstRaster(1))
    ELSE IF AnthroDisturbanceType \in {"Pre", "Post"} THEN
        IF dist_field = "GrSG_Dist"
        THEN ProdRasters(rasterList \o <<Agriculture_Index, Lakes>>)
        ELSE ProdRasters(rasterList \o <<Lakes>>)
    ELSE ProdRasters(rasterList \o <<emptyRaster>>)

\* multiplyRasters: the type rasters times the background indices of the
\* disturbance type and species.
multiplyRasters(rasterList, AnthroDisturbanceType, dist_field, Agriculture_Index, Lakes, emptyRaster) ==
    IF AnthroDisturbanceType \in {"Pre", "Post"} THEN
        IF dist_field = "GrSG_Dist"
        THEN ProdRasters(rasterList \o <<Agriculture_Index, Lakes>>)
        ELSE ProdRasters(rasterList \o <<Lakes>>)
    ELSE ProdRasters(rasterList \o <<emptyRaster>>)


-----------------------------------------------------------------------------
(* The workspace: named rasters of the project geodatabase and of the      *)
(* tool's data folders (InputData.gdb, AnthroData.gdb).                    *)

\* Raster.save(name) / overwriteOutput: the workspace with name bound to r.
Save(w, name, r) ==
    [n \in (DOMAIN w) \cup {name} |-> IF n = name THEN r ELSE w[n]]

\* os.path.join(anthro_path, subtype)
AnthroPath(subtype) == "AnthroData.gdb/" \o subtype

\* The columns of the Parameter Values table, read by the search cursors.
Column(Parameter_Values, field) ==
    [i \in 1..Len(Parameter_Values) |-> Parameter_Values[i][field]]

\* dict(zip(keys, vals))[k]: the value of the last pair whose key is k.
DictGet(keys, vals, k) ==
    LET idx == {i \in 1..Len(keys) : keys[i] = k}
        last == CHOOSE i \in idx : \A j \in idx : j <= i
    IN  vals[last]

\* makeUnique: the types in order of first appearance, "N/A" left out.
RECURSIVE makeUnique(_)
makeUnique(typeList) ==
    IF typeList = <<>> THEN <<>>
    ELSE LET init == SubSeq(typeList, 1, Len(typeList) - 1)
             uniqueTypes == makeUnique(init)
             anthroType == typeList[Len(typeList)]
         IN  IF anthroType \in {uniqueTypes[i] : i \in 1..Len(uniqueTypes)}
                \/ anthroType = "N/A"
             THEN uniqueTypes
             ELSE Append(uniqueTypes, anthroType)

\* getUniqueSubtypes: the subtypes of the rows whose type is uniqueType.
RECURSIVE getUniqueSubtypes(_, _, _)
getUniqueSubtypes(uniqueType, typeList, subtypeList) ==
    IF typeList = <<>> THEN <<>>
    ELSE LET n == Len(typeList)
             rest == getUniqueSubtypes(uniqueType, SubSeq(typeList, 1, n - 1),
                                       SubSeq(subtypeList, 1, n - 1))
         IN  IF typeList[n] = uniqueType THEN Append(rest, subtypeList[n])
             ELSE rest

\* The selection with the Pre branch reading what the Post branch reads.
SelectAnthroFeatures_PreAsPost(anthro_disturbance_type, subtype, unique_proposed_subtypes) ==
    IF anthro_disturbance_type \in {"Pre", "Post"} THEN
        IF subtype \in unique_proposed_subtypes THEN "Post_" \o subtype
        ELSE AnthroPath(subtype)
    ELSE IF subtype \in unique_proposed_subtypes THEN "Proposed_" \o subtype
    ELSE NoFeatures

\* The feature raster a subtype is evaluated on, by disturbance type.
SelectAnthroFeatures(anthro_disturbance_type, subtype, unique_proposed_subtypes) ==
    IF anthro_disturbance_type = "Pre" THEN AnthroPath(subtype)
    ELSE IF anthro_disturbance_type = "Post" THEN
        IF subtype \in unique_proposed_subtypes THEN "Post_" \o subtype
        ELSE AnthroPath(subtype)
    ELSE IF subtype \in unique_proposed_subtypes THEN "Proposed_" \o subtype
    ELSE NoFeatures

\* arcpy.CalculateStatistics_management raises ExecuteError on a raster
\* without any data cell.
StatisticsFail(raster) == \A c \in Cells : raster[c] = NoData

\* The feature raster after the mask of the call:
\* Con(mask == 0, AnthroFeatures, None) when a mask is given.
MaskFeatures(mask, AnthroFeatures) ==
    IF mask = None THEN AnthroFeatures
    ELSE Con(EqualTo(mask.v, 0), AnthroFeatures, ConstRaster(NoData))

\* The record the trace keeps of one subtype visited by the loop.
Evaluation(anthroType, subtype, features, source, distance, weight, r) ==
    [Type |-> anthroType, Subtype |-> subtype, features |-> features,
     source |-> source, distance |-> distance, weight |-> weight,
     raster |-> r]

\* One entry of the log of a call: the stage that ran, the name it saved
\* its raster under, and the names of the rasters it was computed from.
Event(stage, name, inputs) ==
    [stage |-> stage, name |-> name, inputs |-> inputs]

\* The stages whose raster is a Python object, not a saved dataset.
InMemory == {"composite", "uplift"}

\* The log after the mask of one subtype: the masked raster is computed
\* from the feature raster and saved (cohqt.py 441-443).
MaskLogged(log, a, features) ==
    IF a.mask # None
    THEN Append(log, Event("mask", "temp_masked_raster", {features}))
    ELSE log

\* The raster calcSubtypeDisturbance is called on (cohqt.py 450, 456).
SubtypeInput(a, features) ==
    IF a.mask # None THEN "temp_masked_raster" ELSE features

\* The end of one pass of the subtype loop (cohqt.py 441-462): the masked
\* raster is saved as "temp_masked_raster", and the subtype raster, when
\* there is one, is saved and appended to the list.
SubtypeAppend(acc, a, outName, source, subtypeRaster, eval) ==
    LET ws1 == IF a.mask # None
               THEN Save(acc.ws, "temp_masked_raster", SR(1, source))
               ELSE acc.ws
        log1 == MaskLogged(acc.log, a, eval.features)
    IN  IF subtypeRaster = None
        THEN [acc EXCEPT !.ws = ws1, !.evals = Append(@, eval),
                         !.log = log1]
        ELSE [subtypeRasters |-> Append(acc.subtypeRasters, subtypeRaster),
              names |-> Append(acc.names, outName),
              ws |-> Save(ws1, outName, subtypeRaster),
              evals |-> Append(acc.evals, eval),
              log |-> Append(log1,
                             Event("subtype", outName,
                                   {SubtypeInput(a, eval.features)}))]

\* The subtype raster of the (masked) feature raster: None when the
\* statistics of the masked raster cannot be calculated (ExecuteError).
SubtypeRasterOf(a, source, distance, weight) ==
    IF a.mask # None /\ StatisticsFail(source) THEN None
    ELSE calcSubtypeDisturbance(source, distance, weight, a.cellSize)

SubtypeOn(acc, a, anthroType, subtype, features, source, distance, weight, subtypeRaster) ==
    SubtypeAppend(acc, a,
                  a.term \o "_" \o subtype \o "_Subtype_Disturbance",
                  source, subtypeRaster,
                  Evaluation(anthroType, subtype, features, source, distance,
                             weight, subtypeRaster))

SubtypeFrom(acc, a, anthroType, subtype, features, source, distance, weight) ==
    SubtypeOn(acc, a, anthroType, subtype, features, source, distance,
              weight, SubtypeRasterOf(a, source, distance, weight))

SubtypeWith(acc, a, anthroType, subtype, features, distance, weight) ==
    IF features = NoFeatures
    THEN [acc EXCEPT !.evals =
              Append(@, Evaluation(anthroType, subtype, features, None.v,
                                   distance, weight, None))]
    ELSE SubtypeFrom(acc, a, anthroType, subtype, features,
                     MaskFeatures(a.mask, acc.ws[features].v),
                     distance, weight)

\* One pass of the subtype loop of CalcAnthroDisturbance (cohqt.py
\* 384-462): acc holds the subtype rasters of the current type, the
\* workspace and the trace of the subtypes visited so far; a holds the
\* arguments of the call.
SubtypeStep(acc, anthroType, subtype, a) ==
    SubtypeWith(acc, a, anthroType, subtype,
                SelectAnthroFeatures(a.anthro_disturbance_type, subtype,
                                     a.unique_proposed_subtypes),
                DictGet(Column(a.Parameter_Values, "Subtype"),
                        Column(a.Parameter_Values, a.dist_field), subtype),
                DictGet(Column(a.Parameter_Values, "Subtype"),
                        Column(a.Parameter_Values, a.weight_field), subtype))

RECURSIVE SubtypeLoop(_, _, _, _, _, _)
SubtypeLoop(uniqueSubtypeList, anthroType, w, evals, log, a) ==
    IF uniqueSubtypeList = <<>>
    THEN [subtypeRasters |-> <<>>, names |-> <<>>, ws |-> w,
          evals |-> evals, log |-> log]
    ELSE SubtypeStep(SubtypeLoop(SubSeq(uniqueSubtypeList, 1,
                                        Len(uniqueSubtypeList) - 1),
                                 anthroType, w, evals, log, a),
                     anthroType, uniqueSubtypeList[Len(uniqueSubtypeList)],
                     a)

\* The end of one pass of the type loop (cohqt.py 464-468): the type raster
\* when at least one subtype raster was made.
TypeAppend(acc, anthroType, a, sub, typeRaster) ==
    IF Len(sub.subtypeRasters) > 0 THEN
        [rasterList |-> Append(acc.rasterList, typeRaster),
         typeNames |-> Append(acc.typeNames, anthroType),
         evals |-> sub.evals,
         ws |-> Save(sub.ws,
                     a.term \o "_" \o anthroType \o "_Type_Disturbance",
                     typeRaster),
         log |-> Append(sub.log,
                        Event("type",
                              a.term \o "_" \o anthroType
                                  \o "_Type_Disturbance",
                              {sub.names[i] : i \in DOMAIN sub.names}))]
    ELSE [acc EXCEPT !.ws = sub.ws, !.evals = sub.evals, !.log = sub.log]

TypeOn(acc, anthroType, a, sub) ==
    TypeAppend(acc, anthroType, a, sub,
               IF Len(sub.subtypeRasters) > 0
               THEN calcTypeDisturbance(sub.subtypeRasters) ELSE None)

\* One pass of the type loop (cohqt.py 379-468).
TypeStep(acc, anthroType, a) ==
    TypeOn(acc, anthroType, a,
           SubtypeLoop(getUniqueSubtypes(anthroType,
                                         Column(a.Parameter_Values, "Type"),
                                         Column(a.Parameter_Values,
                                                "Subtype")),
                       anthroType, acc.ws, acc.evals, acc.log, a))

RECURSIVE TypeLoop(_, _, _)
TypeLoop(uniqueTypes, w, a) ==
    IF uniqueTypes = <<>>
    THEN [rasterList |-> <<>>, typeNames |-> <<>>, evals |-> <<>>, ws |-> w,
          log |-> <<>>]
    ELSE TypeStep(TypeLoop(SubSeq(uniqueTypes, 1, Len(uniqueTypes) - 1),
                           w, a),
                  uniqueTypes[Len(uniqueTypes)], a)

\* The composite formed when the last type raster is not yet in the list.
CallResult_BeforeLast(a, w, types) ==
    LET done == SubSeq(types.typeNames, 1, Len(types.typeNames) - 1)
    IN  [anthroRaster |->
             multiplyRasters(SubSeq(types.rasterList, 1,
                                    Len(types.rasterList) - 1),
                             a.anthro_disturbance_type, a.dist_field,
                             w["InputData.gdb/GrSG_Ag_Index"],
                             w["InputData.gdb/Lakes"], a.emptyRaster),
         rasterList |-> types.rasterList, typeNames |-> types.typeNames,
         evals |-> types.evals, ws |-> types.ws, args |-> a,
         log |-> Append(types.log,
                        Event("composite", "anthroRaster",
                              {a.term \o "_" \o done[i]
                                   \o "_Type_Disturbance" :
                                       i \in DOMAIN done}))]

\* What a call returns and leaves: the composite raster, the workspace, and
\* the trace of its locals (the list of type rasters, the types they belong
\* to, and one record per subtype visited).
CallResult(a, w, types) ==
    [anthroRaster |->
         multiplyRasters(types.rasterList, a.anthro_disturbance_type,
                         a.dist_field, w["InputData.gdb/GrSG_Ag_Index"],
                         w["InputData.gdb/Lakes"], a.emptyRaster),
     rasterList |-> types.rasterList, typeNames |-> types.typeNames,
     evals |-> types.evals, ws |-> types.ws, args |-> a,
     log |-> Append(types.log,
                    Event("composite", "anthroRaster",
                          {a.term \o "_" \o types.typeNames[i]
                               \o "_Type_Disturbance" :
                                   i \in DOMAIN types.typeNames}))]

\* CalcAnthroDisturbance (cohqt.py 257-477).
CalcAnthroDisturbance(a, w) ==
    CallResult(a, w,
               TypeLoop(makeUnique(Column(a.Parameter_Values, "Type")),
                        w, a))

-----------------------------------------------------------------------------
(* Preparing the proposed features, and the mule-deer PJ/open combination. *)

\* PolygonToRaster / FeatureToRaster of the selected features with
\* value_field "Weight": the cell takes the Weight of the feature covering
\* it (the largest, by priority_field), NoData where no feature lies.
FeaturesToRaster(features) ==
    LET on(c) == {f \in features : f.cell = c}
        top(c) == CHOOSE w \in {f.Weight : f \in on(c)} :
                      \A f \in on(c) : f.Weight <= w
    IN  [c \in Cells |-> IF on(c) = {} THEN NoData ELSE top(c)]

\* convertProposedToRasterDebit: one raster "Proposed_<subtype>" per
\* subtype of the proposed features.
RECURSIVE convertProposedToRasterDebit(_, _, _)
convertProposedToRasterDebit(features, subtypes, w) ==
    IF subtypes = {} THEN w
    ELSE LET subtype == CHOOSE x \in subtypes : TRUE
             selected == {f \in features : f.Subtype = subtype}
         IN  convertProposedToRasterDebit(
                 features, subtypes \ {subtype},
                 Save(w, "Proposed_" \o subtype,
                      SR(1, FeaturesToRaster(selected))))

\* combineProposedWithCurrentDebit: "Post_<subtype>" is the proposed raster
\* where it has data and the current raster elsewhere.
RECURSIVE combineProposedWithCurrentDebit(_, _)
combineProposedWithCurrentDebit(uniqueProposedSubtypes, w) ==
    IF uniqueProposedSubtypes = {} THEN w
    ELSE LET subtype == CHOOSE x \in uniqueProposedSubtypes : TRUE
             currentAnthroFeature == w[AnthroPath(subtype)].v
             proposedAnthroFeature == w["Proposed_" \o subtype].v
             postAnthroFeature ==
                 Con(IsNull(proposedAnthroFeature), currentAnthroFeature,
                     proposedAnthroFeature)
         IN  combineProposedWithCurrentDebit(
                 uniqueProposedSubtypes \ {subtype},
                 Save(w, "Post_" \o subtype, SR(1, postAnthroFeature)))

\* Con(BWMD_Open == 1, anthro_open, 1)
OpenOnly(BWMD_Open, anthro_open) ==
    SCon(EqualTo(BWMD_Open.v, 1), anthro_open, SR(1, ConstRaster(1)))

\* Con(anthro_open_only < anthro_pj, anthro_open_only, anthro_pj)
SelectMinimum(anthro_open_only, anthro_pj) ==
    SCon(SLessThan(anthro_open_only, anthro_pj), anthro_open_only, anthro_pj)

\* arcpy.Delete_management(name)
Delete(w, name) == [n \in (DOMAIN w) \ {name} |-> w[n]]


-----------------------------------------------------------------------------
(* State of one tool run.                                                  *)

VARIABLES
    pc,                        \* position in the tool's main()
    species,                   \* "GrSG" or "Mule": the habitat detected
    Parameter_Values,          \* the Parameter Values table, a list of rows
    proposed,                  \* features of Proposed_Surface_Disturbance
    unique_proposed_subtypes,  \* result of convertProposedToRasterDebit
    ws,                        \* the workspace: name -> scaled raster
    call,                      \* trace of the last CalcAnthroDisturbance call
    zoneTable,                 \* attribute table of the zone feature class
    debitArgs,                 \* arguments of the calcDebits call
    cursor,                    \* rows the update cursor has passed
    messages,                  \* arcpy.AddMessage log of calcDebits
    sample,                    \* arguments of one calcSubtypeDisturbance call
    surface,                   \* what that call returned
    written                    \* the rasters made so far, in order

vars == <<pc, species, Parameter_Values, proposed, unique_proposed_subtypes,
          ws, call, zoneTable, debitArgs, cursor, messages, sample, surface,
          written>>

anthroVars == <<species, Parameter_Values, proposed>>
debitVars == <<zoneTable, debitArgs, cursor, messages>>
unitVars == <<sample, surface>>

\* The subtypes of the Parameter Values table, one row each, in row order.
SubtypeNames == <<"SubA", "SubB", "SubC">>

\* The values of the Type column.
TypeNames == {"TypeX", "TypeY", "N/A"}

\* The Type columns of the tables of a run: every assignment for a
\* sage-grouse run, those without "N/A" for a mule-deer run.
TypeColumns(sp) ==
    IF sp = "GrSG" THEN [1..3 -> TypeNames]
    ELSE [1..3 -> TypeNames \ {"N/A"}]

\* The (Distance, Weight) pairs a row may hold for a species context.
DistWeight == {<<0, 0>>, <<0, 40>>, <<60, 100>>}

\* Values of the general Weight column, which CreateIndirectImpactArea joins
\* to the proposed features.
WeightColumn == {1, 3}

\* The cells a proposed feature may cover.
ProposedCells == {2}

Rows == 1..Len(SubtypeNames)

\* The feature rasters of AnthroData.gdb: SubA lies in cell 1, SubB in
\* cell 2, SubC has no feature inside the analysis extent.
CurrentFeatures(subtype) ==
    [c \in Cells |-> IF (subtype = "SubA" /\ c = 1)
                        \/ (subtype = "SubB" /\ c = 2) THEN 1 ELSE NoData]

\* The rasters of InputData.gdb.  The indices are halves (scale 2).
InputData ==
    [n \in {"InputData.gdb/GrSG_Ag_Index", "InputData.gdb/Lakes",
            "InputData.gdb/Extent_Raster",
            "InputData.gdb/Mule_Deer_Open_Habitat"} |->
        CASE n = "InputData.gdb/GrSG_Ag_Index" ->
                 SR(2, [c \in Cells |-> IF c = 1 THEN 1 ELSE 2])
          [] n = "InputData.gdb/Lakes" ->
                 SR(1, [c \in Cells |-> IF c = NCells THEN 0 ELSE 1])
          [] n = "InputData.gdb/Extent_Raster" -> SR(1, ConstRaster(1))
          [] n = "InputData.gdb/Mule_Deer_Open_Habitat" ->
                 SR(1, [c \in Cells |-> IF c = 2 THEN 0
                                        ELSE IF c = 3 THEN NoData ELSE 1])]

AnthroData ==
    [n \in {AnthroPath(SubtypeNames[i]) : i \in Rows} |->
        SR(1, CurrentFeatures(
                  CHOOSE x \in {SubtypeNames[i] : i \in Rows} :
                      AnthroPath(x) = n))]

InitialWorkspace ==
    [n \in (DOMAIN InputData) \cup (DOMAIN AnthroData) |->
        IF n \in DOMAIN InputData THEN InputData[n] ELSE AnthroData[n]]

\* cheStandard properties
EmptyRaster(w) == w["InputData.gdb/Extent_Raster"]
BWMD_Open(w) == w["InputData.gdb/Mule_Deer_Open_Habitat"]

NoCall ==
    [anthroRaster |-> None, rasterList |-> <<>>, typeNames |-> <<>>,
     evals |-> <<>>, result |-> "", log |-> <<>>,
     args |-> [term |-> "", anthro_disturbance_type |-> "",
               dist_field |-> "", weight_field |-> "", mask |-> None]]

\* A row of the Parameter Values table.
ParameterRow(type, subtype, grsg, mdp, mdo, weight) ==
    [Type |-> type, Subtype |-> subtype,
     GrSG_Dist |-> grsg[1], GrSG_Weight |-> grsg[2],
     MDP_Dist |-> mdp[1], MDP_Weight |-> mdp[2],
     MDO_Dist |-> mdo[1], MDO_Weight |-> mdo[2],
     Weight |-> weight]

\* The Weight that JoinField gives a feature of the subtype: that of the
\* first row of the subtype.
JoinedWeight(table, subtype) ==
    LET idx == {i \in 1..Len(table) : table[i].Subtype = subtype}
        first == CHOOSE i \in idx : \A j \in idx : i <= j
    IN  table[first].Weight

InitAnthro ==
    /\ species \in {"GrSG", "Mule"}
    /\ \E types \in TypeColumns(species), dw \in [Rows -> DistWeight],
          weight \in WeightColumn, open \in DistWeight :
          Parameter_Values =
              [i \in Rows |->
                  ParameterRow(types[i], SubtypeNames[i],
                               IF species = "GrSG" THEN dw[i] ELSE <<0, 0>>,
                               IF species = "Mule" THEN dw[i] ELSE <<0, 0>>,
                               IF species = "Mule" THEN open ELSE <<0, 0>>,
                               weight)]
    /\ \E i \in Rows, c \in ProposedCells :
          proposed = {[Subtype |-> SubtypeNames[i], cell |-> c,
                       Weight |-> JoinedWeight(Parameter_Values,
                                               SubtypeNames[i])]}
    /\ unique_proposed_subtypes = {}
    /\ ws = InitialWorkspace
    /\ call = NoCall
    /\ written = <<>>
    /\ pc = "convertProposed"

NoDebits ==
    /\ zoneTable = <<>>
    /\ debitArgs = [pre_field |-> "", post_field |-> "", out_field |-> ""]
    /\ cursor = 0
    /\ messages = <<>>

\* No calcSubtypeDisturbance call on its own.
NoSample ==
    /\ sample = [AnthroFeatures |-> <<>>, distance |-> 0, weight |-> 0]
    /\ surface = None

Init == InitAnthro /\ NoDebits /\ NoSample


-----------------------------------------------------------------------------
(* Debit Tool 2, from the preparation of the proposed features on.         *)

\* The arguments main() passes to CalcAnthroDisturbance.
CallArgs(term, anthro_disturbance_type, dist_field, weight_field, mask) ==
    [Parameter_Values |-> Parameter_Values, term |-> term,
     unique_proposed_subtypes |-> unique_proposed_subtypes,
     anthro_disturbance_type |-> anthro_disturbance_type,
     dist_field |-> dist_field, weight_field |-> weight_field,
     cellSize |-> CellSize, emptyRaster |-> EmptyRaster(ws), mask |-> mask]

\* What the trace keeps of a finished call.
Trace(r, name) ==
    [anthroRaster |-> r.anthroRaster, rasterList |-> r.rasterList,
     typeNames |-> r.typeNames, evals |-> r.evals, result |-> name,
     log |-> r.log,
     args |-> [term |-> r.args.term,
               anthro_disturbance_type |-> r.args.anthro_disturbance_type,
               dist_field |-> r.args.dist_field,
               weight_field |-> r.args.weight_field,
               mask |-> r.args.mask]]

\* The entries a step of main() adds to the list of saved rasters: those of
\* the given log, each with the step that made it.
WrittenBy(by, log) ==
    [i \in DOMAIN log |->
        [by |-> by, stage |-> log[i].stage, name |-> log[i].name,
         inputs |-> log[i].inputs]]

\* The names of a set, as a list.
RECURSIVE Listed(_)
Listed(names) ==
    IF names = {} THEN <<>>
    ELSE LET n == CHOOSE x \in names : TRUE
         IN  <<n>> \o Listed(names \ {n})

\* result = CalcAnthroDisturbance(...); result.save(name)
Returned(r, name, next) ==
    /\ ws' = Save(r.ws, name, r.anthroRaster)
    /\ call' = Trace(r, name)
    /\ written' = written
                   \o WrittenBy(pc, Append(r.log,
                                           Event("result", name,
                                                 {"anthroRaster"})))
    /\ pc' = next

RunCall(at, next, name, term, anthro_disturbance_type, dist_field, weight_field, mask) ==
    /\ pc = at
    /\ Returned(CalcAnthroDisturbance(
                    CallArgs(term, anthro_disturbance_type, dist_field,
                             weight_field, mask), ws),
                name, next)
    /\ UNCHANGED <<anthroVars, unique_proposed_subtypes, debitVars, unitVars>>

\* What convertProposedToRasterDebit and convertProposedToRasterCredit
\* save: "Proposed_<subtype>", made from the features given.
ProposedLog(features, subtypes) ==
    [i \in DOMAIN subtypes |->
        Event("proposed", "Proposed_" \o subtypes[i], {features})]

\* What combineProposedWithCurrentDebit saves: "Post_<subtype>", made from
\* the proposed and the current raster of the subtype.
CombinedLog(subtypes) ==
    [i \in DOMAIN subtypes |->
        Event("combined", "Post_" \o subtypes[i],
              {"Proposed_" \o subtypes[i], AnthroPath(subtypes[i])})]

\* DebitTool_2.py 280-282
ConvertProposed ==
    /\ pc = "convertProposed"
    /\ unique_proposed_subtypes' = {f.Subtype : f \in proposed}
    /\ ws' = convertProposedToRasterDebit(
                 proposed, {f.Subtype : f \in proposed}, ws)
    /\ written' = written
                   \o WrittenBy(pc, ProposedLog(
                                        "Proposed_Surface_Disturbance",
                                        Listed({f.Subtype : f \in proposed})))
    /\ pc' = "combineProposed"
    /\ UNCHANGED <<anthroVars, call, debitVars, unitVars>>

\* DebitTool_2.py 284-285
CombineProposed ==
    /\ pc = "combineProposed"
    /\ \A subtype \in unique_proposed_subtypes :
           AnthroPath(subtype) \in DOMAIN ws
    /\ ws' = combineProposedWithCurrentDebit(unique_proposed_subtypes, ws)
    /\ written' = written
                   \o WrittenBy(pc, CombinedLog(
                                        Listed(unique_proposed_subtypes)))
    /\ pc' = IF species = "GrSG" THEN "grsgPre" ELSE "mulePJPre"
    /\ UNCHANGED <<anthroVars, unique_proposed_subtypes, call, debitVars, unitVars>>

\* DebitTool_2.py 302-313
GrsgPre ==
    RunCall("grsgPre", "grsgPost", "GRSG_Pre_Anthro_Disturbance",
            "Pre", "Pre", "GrSG_Dist", "GrSG_Weight", None)

\* DebitTool_2.py 320-330
GrsgPost ==
    RunCall("grsgPost", "grsgLek", "GRSG_Post_Anthro_Disturbance",
            "Post", "Post", "GrSG_Dist", "GrSG_Weight", None)

\* DebitTool_2.py 338-348
GrsgLek ==
    RunCall("grsgLek", "done", "Lek_Disturbance_Modifier",
            "Post", "LekDisturbanceModifier", "GrSG_Dist", "GrSG_Weight",
            None)

\* DebitTool_2.py 527-540
MulePJPre ==
    RunCall("mulePJPre", "muleOpenPre", "MuleDeer_Pre_Anthro_Disturbance_P",
            "Pre", "Pre", "MDP_Dist", "MDP_Weight", None)

\* DebitTool_2.py 542-554
MuleOpenPre ==
    RunCall("muleOpenPre", "muleCombinePre",
            "MuleDeer_Pre_Anthro_Disturbance_O",
            "Pre", "Pre", "MDO_Dist", "MDO_Weight", BWMD_Open(ws))

\* The combination of the PJ and open rasters of one term.
Combined(w, name, anthro_open_only, cleanUp) ==
    LET ws1 == Save(Save(w, name \o "_OO", anthro_open_only), name,
                    SelectMinimum(anthro_open_only, w[name \o "_P"]))
    IN  IF cleanUp THEN Delete(ws1, "temp_masked_raster") ELSE ws1

MuleCombine(at, next, name, cleanUp) ==
    /\ pc = at
    /\ ws' = Combined(ws, name, OpenOnly(BWMD_Open(ws), ws[name \o "_O"]),
                      cleanUp)
    /\ written' = written
                   \o WrittenBy(pc, <<Event("openOnly", name \o "_OO",
                                            {name \o "_O"}),
                                      Event("minimum", name,
                                            {name \o "_OO", name \o "_P"})>>)
    /\ pc' = next
    /\ UNCHANGED <<anthroVars, unique_proposed_subtypes, call, debitVars, unitVars>>

\* DebitTool_2.py 556-567
MuleCombinePre ==
    MuleCombine("muleCombinePre", "mulePJPost",
                "MuleDeer_Pre_Anthro_Disturbance", TRUE)

\* DebitTool_2.py 577-590
MulePJPost ==
    RunCall("mulePJPost", "muleOpenPost",
            "MuleDeer_Post_Anthro_Disturbance_P",
            "Post", "Post", "MDP_Dist", "MDP_Weight", None)

\* DebitTool_2.py 592-604
MuleOpenPost ==
    RunCall("muleOpenPost", "muleCombinePost",
            "MuleDeer_Post_Anthro_Disturbance_O",
            "Post", "Post", "MDO_Dist", "MDO_Weight", BWMD_Open(ws))

\* DebitTool_2.py 606-614
MuleCombinePost ==
    MuleCombine("muleCombinePost", "done",
                "MuleDeer_Post_Anthro_Disturbance", FALSE)

Next ==
    \/ ConvertProposed
    \/ CombineProposed
    \/ GrsgPre
    \/ GrsgPost
    \/ GrsgLek
    \/ MulePJPre
    \/ MuleOpenPre
    \/ MuleCombinePre
    \/ MulePJPost
    \/ MuleOpenPost
    \/ MuleCombinePost

Spec == Init /\ [][Next]_vars

-----------------------------------------------------------------------------
(* Debit Tool 2 with a proposed feature whose Subtype has no row in the    *)
(* Parameter Values table.                                                 *)

\* A subtype that is not in the Subtype column.
UnlistedSubtype == "SubD"

\* The workspace when AnthroData.gdb holds a raster of the unlisted subtype.
WithUnlisted(w) ==
    [n \in (DOMAIN w) \cup {AnthroPath(UnlistedSubtype)} |->
        IF n \in DOMAIN w THEN w[n]
        ELSE SR(1, [c \in Cells |-> IF c = 3 THEN 1 ELSE NoData])]

\* The Weight of the feature: JoinField finds no row, so the field is
\* <Null>, rasterized as NoData, unless the layer came with a Weight.
UnlistedWeights == WeightColumn \cup {NoData}

InitUnlisted ==
    /\ species \in {"GrSG", "Mule"}
    /\ \E types \in TypeColumns(species) :
          Parameter_Values =
              [i \in Rows |->
                  ParameterRow(types[i], SubtypeNames[i],
                               IF species = "GrSG" THEN <<60, 100>>
                               ELSE <<0, 0>>,
                               IF species = "Mule" THEN <<60, 100>>
                               ELSE <<0, 0>>,
                               IF species = "Mule" THEN <<0, 40>>
                               ELSE <<0, 0>>,
                               1)]
    /\ \E c \in ProposedCells, w \in UnlistedWeights :
          proposed = {[Subtype |-> UnlistedSubtype, cell |-> c,
                       Weight |-> w]}
    /\ unique_proposed_subtypes = {}
    /\ ws \in {InitialWorkspace, WithUnlisted(InitialWorkspace)}
    /\ call = NoCall
    /\ written = <<>>
    /\ NoDebits
    /\ NoSample
    /\ pc = "convertProposed"

\* cohqt.py 823: Raster(os.path.join(anthroPath, subtype)) raises
\* RuntimeError when AnthroData.gdb holds no raster of the subtype.
CombineFails ==
    /\ pc = "combineProposed"
    /\ \E subtype \in unique_proposed_subtypes :
           AnthroPath(subtype) \notin DOMAIN ws
    /\ pc' = "RuntimeError"
    /\ UNCHANGED <<anthroVars, written, unique_proposed_subtypes, ws, call, debitVars, unitVars>>

NextUnlisted ==
    \/ Next
    \/ CombineFails

SpecUnlisted == InitUnlisted /\ [][NextUnlisted]_vars

-----------------------------------------------------------------------------
(* Debit Tool 2 on a Proposed_Surface_Disturbance with two features of      *)
(* different subtypes in one cell.                                          *)

\* The (Distance, Weight) pairs of the rows in these runs.
SeveralDistWeight == {<<0, 40>>, <<60, 100>>}

InitSeveral ==
    /\ species \in {"GrSG", "Mule"}
    /\ \E types \in TypeColumns(species), dw \in [Rows -> SeveralDistWeight],
          weight \in WeightColumn :
          Parameter_Values =
              [i \in Rows |->
                  ParameterRow(types[i], SubtypeNames[i],
                               IF species = "GrSG" THEN dw[i] ELSE <<0, 0>>,
                               IF species = "Mule" THEN dw[i] ELSE <<0, 0>>,
                               IF species = "Mule" THEN dw[i] ELSE <<0, 0>>,
                               weight)]
    /\ \E i \in Rows, j \in Rows, c \in ProposedCells :
          /\ i < j
          /\ proposed = {[Subtype |-> SubtypeNames[k], cell |-> c,
                          Weight |-> JoinedWeight(Parameter_Values,
                                                  SubtypeNames[k])] :
                            k \in {i, j}}
    /\ unique_proposed_subtypes = {}
    /\ ws = InitialWorkspace
    /\ call = NoCall
    /\ written = <<>>
    /\ NoDebits
    /\ NoSample
    /\ pc = "convertProposed"

SpecSeveral == InitSeveral /\ [][Next]_vars

-----------------------------------------------------------------------------
(* calcDebits (cohqt.py 838-856) on the attribute table of the zones.      *)
(* Acres are whole acres; the pre and post fields (zonal means of the      *)
(* habitat-quality rasters) are in tenths, so the output is in tenths of a *)
(* functional acre.                                                        *)

\* Number of zone rows of the table.
NZones == 2

\* A <Null> field value.
Null == NoData - 1

\* The calls of calcDebits: DebitTool_2.py 493 and 755, CreditTool_2.py 785,
\* DebitTool_4.py 332.
Callers ==
    {[tool |-> "DebitTool_2", pre_field |-> "GRSG_Pre_Project",
      post_field |-> "GrSG_Post_Project", out_field |-> "Debits"],
     [tool |-> "DebitTool_2", pre_field |-> "Mule_Pre_Summer",
      post_field |-> "Mule_Post_Summer", out_field |-> "Mule_Summer_Impact"],
     [tool |-> "CreditTool_2", pre_field |-> "Mule_Pre_Summer",
      post_field |-> "Mule_Post_Summer", out_field |-> "Mule_Summer_Benefit"],
     [tool |-> "DebitTool_4", pre_field |-> "GRSG_Pre_Project_A",
      post_field |-> "GrSG_Post_Project_A", out_field |-> "Debits_adj"]}

AcresValues == {0, 10}
PreValues == {4, 6, Null}
PostValues == {4, 6}

\* A row of the zone table before calcDebits.
ZoneRow(args, acres, pre, post) ==
    [f \in {"Acres", args.pre_field, args.post_field} |->
        IF f = "Acres" THEN acres
        ELSE IF f = args.pre_field THEN pre ELSE post]

\* No CalcAnthroDisturbance run.
NoAnthro ==
    /\ species = "GrSG"
    /\ Parameter_Values = <<>>
    /\ proposed = {}
    /\ unique_proposed_subtypes = {}
    /\ ws = InitialWorkspace
    /\ call = NoCall
    /\ written = <<>>

InitDebits ==
    /\ NoAnthro
    /\ NoSample
    /\ pc = "calcDebits"
    /\ debitArgs \in Callers
    /\ \E acres \in [1..NZones -> AcresValues],
          pre \in [1..NZones -> PreValues], post \in [1..NZones -> PostValues] :
          zoneTable = [i \in 1..NZones |->
                          ZoneRow(debitArgs, acres[i], pre[i], post[i])]
    /\ cursor = 0
    /\ messages = <<>>

\* arcpy.AddField_management(inTable, fieldName, "DOUBLE"): every row gets
\* the new field, <Null>.
AddField ==
    /\ pc = "calcDebits"
    /\ zoneTable' =
           [i \in 1..Len(zoneTable) |->
               [f \in (DOMAIN zoneTable[i]) \cup {debitArgs.out_field} |->
                   IF f = debitArgs.out_field THEN Null
                   ELSE zoneTable[i][f]]]
    /\ pc' = "cursor"
    /\ UNCHANGED <<anthroVars, written, unique_proposed_subtypes, ws, call, debitArgs,
                   cursor, messages, unitVars>>

\* A variant of calcDebitsRow with the difference taken the other way round.
calcDebitsRow_Flipped(row0, row1, row2) == row0 * (row2 - row1)

\* row[3] = row[0] * (row[1] - row[2])
calcDebitsRow(row0, row1, row2) == row0 * (row1 - row2)

\* One pass of the cursor loop: the next row is computed, written back and
\* reported; a <Null> operand raises TypeError out of calcDebits.
UpdateRow ==
    /\ pc = "cursor"
    /\ cursor < Len(zoneTable)
    /\ LET row == zoneTable[cursor + 1]
           row0 == row["Acres"]
           row1 == row[debitArgs.pre_field]
           row2 == row[debitArgs.post_field]
       IN  IF Null \in {row0, row1, row2}
           THEN /\ pc' = "TypeError"
                /\ UNCHANGED <<zoneTable, cursor, messages>>
           ELSE /\ zoneTable' =
                       [zoneTable EXCEPT ![cursor + 1][debitArgs.out_field] =
                            calcDebitsRow(row0, row1, row2)]
                /\ messages' =
                       Append(messages,
                              [pre_field |-> debitArgs.pre_field,
                               post_field |-> debitArgs.post_field,
                               value |-> calcDebitsRow(row0, row1, row2)])
                /\ cursor' = cursor + 1
                /\ pc' = "cursor"
    /\ UNCHANGED <<anthroVars, written, unique_proposed_subtypes, ws, call, debitArgs,
                   unitVars>>

\* The cursor is exhausted and calcDebits returns.
CloseCursor ==
    /\ pc = "cursor"
    /\ cursor = Len(zoneTable)
    /\ pc' = "done"
    /\ UNCHANGED <<anthroVars, written, unique_proposed_subtypes, ws, call, debitVars,
                   unitVars>>

NextDebits ==
    \/ AddField
    \/ UpdateRow
    \/ CloseCursor

SpecDebits == InitDebits /\ [][NextDebits]_vars

-----------------------------------------------------------------------------
(* calcSubtypeDisturbance on its own, over presence rasters, distances and *)
(* weights.                                                                *)

\* The presence rasters: 1 on the cells of a feature, NoData elsewhere.
Presences ==
    {[c \in Cells |-> IF c \in S THEN 1 ELSE NoData] : S \in SUBSET Cells}

Distances == {0, 60, 120}
Weights == {0, 40, 100}

InitSubtype ==
    /\ NoAnthro
    /\ NoDebits
    /\ pc = "calcSubtypeDisturbance"
    /\ sample \in [AnthroFeatures : Presences, distance : Distances,
                   weight : Weights]
    /\ surface = None

CalcSubtype ==
    /\ pc = "calcSubtypeDisturbance"
    /\ surface' = calcSubtypeDisturbance(sample.AnthroFeatures,
                                         sample.distance, sample.weight,
                                         CellSize)
    /\ pc' = "returned"
    /\ UNCHANGED <<anthroVars, written, unique_proposed_subtypes, ws, call, debitVars,
                   sample>>

NextSubtype == CalcSubtype

SpecSubtype == InitSubtype /\ [][NextSubtype]_vars

-----------------------------------------------------------------------------
(* Seasonal habitat quality (cohqt.py) and the seasonal steps of the Debit *)
(* and Credit tools.                                                       *)

\* a + b, cell by cell; NoData where either operand is NoData.
SAdd(a, b) ==
    LET S == CommonScale(a, b)
    IN  SR(S, [c \in Cells |-> IF a.v[c] = NoData \/ b.v[c] = NoData
                               THEN NoData
                               ELSE ValueAt(a, c, S) + ValueAt(b, c, S)])

\* a - b, cell by cell; NoData where either operand is NoData.
SSub(a, b) ==
    LET S == CommonScale(a, b)
    IN  SR(S, [c \in Cells |-> IF a.v[c] = NoData \/ b.v[c] = NoData
                               THEN NoData
                               ELSE ValueAt(a, c, S) - ValueAt(b, c, S)])

\* Con(cond, t, f, "VALUE = 0"): t where cond is 0, f where cond has any
\* other value, NoData where cond is NoData.
SConValueZero(cond, t, f) ==
    LET S == CommonScale(t, f)
    IN  SR(S, [c \in Cells |-> IF cond.v[c] = NoData THEN NoData
                               ELSE IF cond.v[c] = 0 THEN ValueAt(t, c, S)
                               ELSE ValueAt(f, c, S)])

\* The raster properties of cheStandard: each reads one raster of
\* InputData.gdb.
LekPresenceRaster(w) == w["InputData.gdb/GrSG_LekRaster"]
LekDistanceModifier(w) == w["InputData.gdb/GrSG_Lek_Distance_Modifier"]
ConiferModifier(w) == w["InputData.gdb/GrSG_Conifer_Modifier"]
GrSG_LDI(w) == w["InputData.gdb/GrSG_LDI"]
SageModifier(w) == w["InputData.gdb/GrSG_Lek_Distance_Modifier"]
BWSGHab(w) == w["InputData.gdb/GrSG_BW"]
BWMDHab(w) == w["InputData.gdb/Mule_Deer_BW"]
MuleDeerMigrationMod(w) == w["InputData.gdb/Mule_Deer_Transition_Modifier"]
MuleDeerWinterMod(w) == w["InputData.gdb/Mule_Deer_Winter_Modifier"]
MuleDeerSummerMod(w) == w["InputData.gdb/Mule_Deer_Summer_Modifier"]
MuleDeerLDI(w) == w["InputData.gdb/Mule_Deer_LDI"]

\* if SuitableHabitat is not None: habitat = habitat * SuitableHabitat
TimesSuitable(habitat, SuitableHabitat) ==
    IF SuitableHabitat = None THEN habitat ELSE SMul(habitat, SuitableHabitat)

calcWinterHabitatGRSG(anthroRaster, conifer, LDI, SuitableHabitat) ==
    TimesSuitable(SMul(SMul(anthroRaster, conifer), LDI), SuitableHabitat)

calcBreedingHabitatGRSG(anthroRaster, conifer, LDI, lekDistance, SuitableHabitat) ==
    TimesSuitable(SMul(SMul(SMul(anthroRaster, conifer), LDI), lekDistance),
                  SuitableHabitat)

calcSummerHabitatGRSG(anthroRaster, conifer, LDI, sage, SuitableHabitat) ==
    TimesSuitable(SMul(SMul(SMul(anthroRaster, conifer), LDI), sage),
                  SuitableHabitat)

calcSummerHabitatMD(anthroRaster, LDI, SummerModifier, SuitableHabitat) ==
    TimesSuitable(SMul(SMul(anthroRaster, LDI), SummerModifier),
                  SuitableHabitat)

calcMigratoryHabitatMD(anthroRaster, LDI, MigrationModifier, SuitableHabitat) ==
    TimesSuitable(SMul(SMul(anthroRaster, LDI), MigrationModifier),
                  SuitableHabitat)

calcWinterHabitatMD(anthroRaster, LDI, WinterModifier, SuitableHabitat) ==
    TimesSuitable(SMul(SMul(anthroRaster, LDI), WinterModifier),
                  SuitableHabitat)

\* Con(LekPresenceRaster, preSeasonalHabitat, LekPresenceRaster, "VALUE = 0")
applyLekUpliftModifierPre(preSeasonalHabitat, lekPresence) ==
    SConValueZero(lekPresence, preSeasonalHabitat, lekPresence)

\* Con(LekPresenceRaster, postSeasonalHabitat, LekDisturbanceModifier,
\*     "VALUE = 0")
applyLekUpliftModifierPost(postSeasonalHabitat, lekPresence, LekDisturbanceModifier) ==
    SConValueZero(lekPresence, postSeasonalHabitat, LekDisturbanceModifier)

\* postModifier - preModifier
calcUplift(preModifier, postModifier) == SSub(postModifier, preModifier)

\* A variant that adds the first uplift of the list only.
calcLekUpliftModifier_First(lekPresence, upliftModifierList) ==
    IF upliftModifierList = <<>> THEN lekPresence
    ELSE SAdd(lekPresence, Head(upliftModifierList))

\* lekUpliftModifier = LekPresenceRaster, then += each uplift of the list in
\* list order.
RECURSIVE calcLekUpliftModifier(_, _)
calcLekUpliftModifier(lekPresence, upliftModifierList) ==
    IF upliftModifierList = <<>> THEN lekPresence
    ELSE calcLekUpliftModifier(SAdd(lekPresence, Head(upliftModifierList)),
                               Tail(upliftModifierList))

\* The raster that repeats the given values along the strip of cells.
Strip(vals) == [c \in Cells |-> vals[((c - 1) % Len(vals)) + 1]]

\* The anthropogenic disturbance composites a tool run can hand to the
\* seasonal steps, in quarters.
AnthroChoices ==
    {SR(4, Strip(<<4, 4, 4, 4>>)), SR(4, Strip(<<4, 2, 3, 1>>)), SR(4, Strip(<<2, 0, 4, NoData>>))}

\* The lek disturbance modifiers of the Debit tool, in quarters.
LekModifierChoices == {SR(4, Strip(<<4, 3, 4, 4>>)), SR(4, Strip(<<1, 4, 2, 0>>))}

\* The lek presence rasters: 1 on a lek, 0 or NoData elsewhere.
LekRasters == {SR(1, Strip(<<0, 1, NoData, 1>>)), SR(1, Strip(<<1, 0, 0, NoData>>))}

\* What calcConiferPost returns for the treatment area, in halves: a
\* raster of the reclassified focal means, each in 0..1.
ConiferPostChoices == {SR(2, Strip(<<2, 2, 1, 2>>)), SR(2, Strip(<<1, 1, 2, 2>>))}

\* The modifier layers of InputData.gdb that the seasonal steps read, in
\* halves; the suitable-habitat layers hold 0 and 1.
SeasonLayers(lek) ==
    [n \in {"InputData.gdb/GrSG_LekRaster",
            "InputData.gdb/GrSG_Lek_Distance_Modifier",
            "InputData.gdb/GrSG_Conifer_Modifier", "InputData.gdb/GrSG_LDI",
            "InputData.gdb/GrSG_Sage_Modifier", "InputData.gdb/GrSG_BW",
            "InputData.gdb/Mule_Deer_BW",
            "InputData.gdb/Mule_Deer_Transition_Modifier",
            "InputData.gdb/Mule_Deer_Winter_Modifier",
            "InputData.gdb/Mule_Deer_Summer_Modifier",
            "InputData.gdb/Mule_Deer_LDI"} |->
        CASE n = "InputData.gdb/GrSG_LekRaster" -> lek
          [] n = "InputData.gdb/GrSG_Lek_Distance_Modifier" ->
                 SR(2, Strip(<<2, 1, 1, 2>>))
          [] n = "InputData.gdb/GrSG_Conifer_Modifier" -> SR(2, Strip(<<1, 2, 1, 2>>))
          [] n = "InputData.gdb/GrSG_LDI" -> SR(2, Strip(<<2, 2, 1, 2>>))
          [] n = "InputData.gdb/GrSG_Sage_Modifier" -> SR(2, Strip(<<1, 1, 2, 2>>))
          [] n = "InputData.gdb/GrSG_BW" -> SR(1, Strip(<<1, 1, 1, 0>>))
          [] n = "InputData.gdb/Mule_Deer_BW" -> SR(1, Strip(<<1, 0, 1, 1>>))
          [] n = "InputData.gdb/Mule_Deer_Transition_Modifier" ->
                 SR(2, Strip(<<2, 1, 0, 2>>))
          [] n = "InputData.gdb/Mule_Deer_Winter_Modifier" ->
                 SR(2, Strip(<<1, 2, 2, 1>>))
          [] n = "InputData.gdb/Mule_Deer_Summer_Modifier" ->
                 SR(2, Strip(<<1, 1, 2, NoData>>))
          [] n = "InputData.gdb/Mule_Deer_LDI" -> SR(2, Strip(<<2, 1, 2, 2>>))]

\* The seasonal habitat rasters of one term before the lek adjustment.
Seasonal(a, b, c) == [first |-> a, second |-> b, third |-> c]

\* The locals of main() at the start of the seasonal steps.
SeasonLocals(tool, lek, suitable, current, projected, coniferPost, treatment, modified, removed) ==
    [tool |-> tool, LekPresenceRaster |-> lek, SuitableHabitat |-> suitable,
     Current_Anthro_Disturbance |-> current,
     Projected_Anthro_Disturbance |-> projected,
     coniferModifierPost |-> coniferPost, upliftRasters |-> <<>>,
     Conifer_Treatment_Area |-> treatment,
     Proposed_Modified_Features |-> modified,
     Anthro_Features_Removed |-> removed]

InitSeason ==
    /\ written = <<>>
    /\ species \in {"GrSG", "Mule"}
    /\ Parameter_Values = <<>>
    /\ proposed = {}
    /\ unique_proposed_subtypes = {}
    /\ call = NoCall
    /\ NoDebits
    /\ surface = None
    /\ \E lek \in LekRasters, lekModifier \in LekModifierChoices :
          ws = IF species = "GrSG"
               THEN Save(SeasonLayers(lek), "Lek_Disturbance_Modifier",
                         lekModifier)
               ELSE SeasonLayers(lek)
    /\ \E tool \in {"DebitTool_2", "CreditTool_2"}, given \in BOOLEAN,
          current \in AnthroChoices, projected \in AnthroChoices,
          coniferPost \in ConiferPostChoices,
          treatment \in BOOLEAN, modified \in BOOLEAN, removed \in BOOLEAN :
          /\ tool = "DebitTool_2" => ~treatment /\ ~modified /\ ~removed
          /\ species = "Mule" => tool = "DebitTool_2"
          /\ sample = SeasonLocals(
                 tool, LekPresenceRaster(ws),
                 IF ~given THEN None
                 ELSE IF species = "GrSG" THEN BWSGHab(ws) ELSE BWMDHab(ws),
                 current, projected, coniferPost, treatment, modified, removed)
    /\ pc = IF species = "GrSG" THEN "seasonalPre" ELSE "muleSeasonalPre"

\* The three sage-grouse seasonal habitat rasters of a term.
SeasonalGRSG(anthro, w, suitable) ==
    Seasonal(calcWinterHabitatGRSG(anthro, ConiferModifier(w), GrSG_LDI(w),
                                   suitable),
             calcBreedingHabitatGRSG(anthro, ConiferModifier(w), GrSG_LDI(w),
                                     LekDistanceModifier(w), suitable),
             calcSummerHabitatGRSG(anthro, ConiferModifier(w), GrSG_LDI(w),
                                   SageModifier(w), suitable))

\* The three mule-deer seasonal habitat rasters of a term.
SeasonalMD(anthro, w, suitable) ==
    Seasonal(calcSummerHabitatMD(anthro, MuleDeerLDI(w), MuleDeerSummerMod(w),
                                 suitable),
             calcMigratoryHabitatMD(anthro, MuleDeerLDI(w),
                                    MuleDeerMigrationMod(w), suitable),
             calcWinterHabitatMD(anthro, MuleDeerLDI(w), MuleDeerWinterMod(w),
                                 suitable))

\* raster.save(name) for the three seasonal rasters of a term.
SaveSeasonal(w, names, a, b, c) ==
    Save(Save(Save(w, names[1], a), names[2], b), names[3], c)

\* Pre-project: the seasonal rasters, each with the lek cells overridden.
SeasonalPre ==
    /\ pc = "seasonalPre"
    /\ surface' = SeasonalGRSG(sample.Current_Anthro_Disturbance, ws,
                               sample.SuitableHabitat)
    /\ ws' = SaveSeasonal(
                 ws, <<"GRSG_Pre_Winter", "GRSG_Pre_Breeding", "GRSG_Pre_Summer">>,
                 applyLekUpliftModifierPre(surface'.first, sample.LekPresenceRaster),
                 applyLekUpliftModifierPre(surface'.second, sample.LekPresenceRaster),
                 applyLekUpliftModifierPre(surface'.third, sample.LekPresenceRaster))
    /\ pc' = IF sample.tool = "DebitTool_2" THEN "seasonalPost"
             ELSE "coniferUplift"
    /\ UNCHANGED <<anthroVars, written, unique_proposed_subtypes, call, debitVars,
                   sample>>

\* Credit tool: the conifer uplift, where a treatment area was provided.
ConiferUplift ==
    /\ pc = "coniferUplift"
    /\ IF sample.Conifer_Treatment_Area
       THEN /\ ws' = Save(ws, "Post_Conifer_Modifier",
                          sample.coniferModifierPost)
            /\ sample' = [sample EXCEPT !.upliftRasters =
                             Append(@, calcUplift(ConiferModifier(ws),
                                                  sample.coniferModifierPost))]
       ELSE /\ ws' = ws
            /\ sample' = [sample EXCEPT !.coniferModifierPost =
                                            ConiferModifier(ws)]
    /\ pc' = "anthroUplift"
    /\ UNCHANGED <<anthroVars, written, unique_proposed_subtypes, call, debitVars,
                   surface>>

\* cheStandard.CreditTerms (cohqt.py 60)
CreditTerms == <<"Pre", "Post">>

\* cheStandard.GrSGSeasons (cohqt.py 62)
GrSGSeasons == <<"Winter", "Breed", "Summer">>

\* The loop over the seasons of a term (CreditTool_2.py 476-490, 552-567):
\* the zonal mean of each seasonal raster is joined to Map_Units_Dissolve
\* as the field "GrSG_<term>_<season>".
JoinedFields(term, rasters) ==
    [i \in DOMAIN GrSGSeasons |->
        Event("join", "GrSG_" \o term \o "_" \o GrSGSeasons[i], {rasters[i]})]

\* Credit tool: the anthropogenic uplift, where modified features were
\* provided; without them the projected disturbance is the current one.
\* The fields of the Pre term are joined next.
AnthroUplift ==
    /\ pc = "anthroUplift"
    /\ IF sample.Proposed_Modified_Features
       THEN /\ ws' = Save(ws, "GRSG_Post_Anthro_Disturbance",
                          sample.Projected_Anthro_Disturbance)
            /\ sample' = [sample EXCEPT !.upliftRasters =
                             Append(@, calcUplift(
                                 sample.Current_Anthro_Disturbance,
                                 sample.Projected_Anthro_Disturbance))]
       ELSE /\ ws' = ws
            /\ sample' = [sample EXCEPT !.Projected_Anthro_Disturbance =
                                            sample.Current_Anthro_Disturbance]
    /\ written' = written
                   \o WrittenBy(pc, JoinedFields(
                                        CreditTerms[1],
                                        <<"GRSG_Pre_Winter", "GRSG_Pre_Breeding",
                                          "GRSG_Pre_Summer">>))
    /\ pc' = IF sample.Conifer_Treatment_Area \/ sample.Anthro_Features_Removed
             THEN "lekUplift" ELSE "done"
    /\ UNCHANGED <<anthroVars, unique_proposed_subtypes, call, debitVars,
                   surface>>

\* What main()'s LekPresenceRaster holds after calcLekUpliftModifier, which
\* binds lekUpliftModifier to the very object and applies "+=" to it
\* (cohqt.py 631-633): the raster as it was when "+=" makes a new raster,
\* the sum when "+=" works on the object in place.
AfterAugmentedAdd(LekPresence, upliftModifierList, result) ==
    IF upliftModifierList = <<>> THEN {LekPresence}
    ELSE {LekPresence, result}

\* Credit tool: the lek uplift modifier.
LekUplift ==
    /\ pc = "lekUplift"
    /\ ws' = Save(ws, "Lek_Uplift_Modifier",
                  calcLekUpliftModifier(sample.LekPresenceRaster,
                                        sample.upliftRasters))
    /\ \E lek \in AfterAugmentedAdd(sample.LekPresenceRaster,
                                     sample.upliftRasters,
                                     ws'["Lek_Uplift_Modifier"]) :
           sample' = [sample EXCEPT !.LekPresenceRaster = lek]
    /\ pc' = "creditSeasonalPost"
    /\ UNCHANGED <<anthroVars, written, unique_proposed_subtypes, call, debitVars,
                   surface>>

\* Post-project: the seasonal rasters, the lek cells replaced by lekModifier.
SeasonalPost(at, anthro, lekModifier, joined) ==
    /\ pc = at
    /\ surface' = SeasonalGRSG(anthro, ws, sample.SuitableHabitat)
    /\ ws' = SaveSeasonal(
                 ws, <<"GRSG_Post_Winter", "GRSG_Post_Breeding", "GRSG_Post_Summer">>,
                 applyLekUpliftModifierPost(surface'.first, sample.LekPresenceRaster, lekModifier),
                 applyLekUpliftModifierPost(surface'.second, sample.LekPresenceRaster, lekModifier),
                 applyLekUpliftModifierPost(surface'.third, sample.LekPresenceRaster, lekModifier))
    /\ written' = written \o WrittenBy(pc, joined)
    /\ pc' = "done"
    /\ UNCHANGED <<anthroVars, unique_proposed_subtypes, call, debitVars,
                   sample>>

DebitSeasonalPost ==
    SeasonalPost("seasonalPost", sample.Projected_Anthro_Disturbance,
                 ws["Lek_Disturbance_Modifier"], <<>>)

CreditSeasonalPost ==
    SeasonalPost("creditSeasonalPost", sample.Projected_Anthro_Disturbance,
                 ws["Lek_Uplift_Modifier"],
                 JoinedFields(CreditTerms[2],
                              <<"GRSG_Post_Winter", "GRSG_Post_Breeding",
                                "GRSG_Post_Summer">>))

\* Mule deer: the seasonal rasters of a term, saved as they are.
MuleSeasonal(at, next, anthro, names) ==
    /\ pc = at
    /\ surface' = SeasonalMD(anthro, ws, sample.SuitableHabitat)
    /\ ws' = SaveSeasonal(ws, names, surface'.first, surface'.second,
                          surface'.third)
    /\ pc' = next
    /\ UNCHANGED <<anthroVars, written, unique_proposed_subtypes, call, debitVars,
                   sample>>

MuleSeasonalPre ==
    MuleSeasonal("muleSeasonalPre", "muleSeasonalPost",
                 sample.Current_Anthro_Disturbance,
                 <<"MuleDeer_Pre_Summer", "MuleDeer_Pre_Migration", "MuleDeer_Pre_Winter">>)

MuleSeasonalPost ==
    MuleSeasonal("muleSeasonalPost", "done",
                 sample.Projected_Anthro_Disturbance,
                 <<"MuleDeer_Post_Summer", "MuleDeer_Post_Migration", "MuleDeer_Post_Winter">>)

NextSeason ==
    \/ SeasonalPre
    \/ ConiferUplift
    \/ AnthroUplift
    \/ LekUplift
    \/ DebitSeasonalPost
    \/ CreditSeasonalPost
    \/ MuleSeasonalPre
    \/ MuleSeasonalPost

SpecSeason == InitSeason /\ [][NextSeason]_vars

-----------------------------------------------------------------------------
(* Zonal statistics (hqtlib.py CalcZonalStats and JoinMeanToTable) on the  *)
(* zone table, followed by calcDebits.  The value rasters are resampled to *)
(* cells of ResampleSize; a zone feature is the set of resampled cells it  *)
(* covers.  Means are exact: they are kept in units of 1 / ZoneScale.      *)

\* Cell size of the resampled raster: Resample_management(.., "5", "NEAREST").
ResampleSize == 5

\* The resampled cells along one cell of the value raster, and of the strip.
SubCells == CellSize \div ResampleSize
SubCellIds == 1..(NCells * SubCells)

\* Resample NEAREST on a plain raster: a resampled cell takes the value of
\* the cell it lies in.
Resample(r) == [u \in SubCellIds |-> r[((u - 1) \div SubCells) + 1]]

\* The resampled cells a zone feature can cover: none (a feature that
\* covers no cell centre), the first cell, the second half of the first
\* cell with the first half of the second, the whole strip.
ZoneShapes ==
    {{}, 1..SubCells,
     ((SubCells \div 2) + 1)..(SubCells + (SubCells \div 2)), SubCellIds}

RECURSIVE Gcd(_, _)
Gcd(a, b) == IF b = 0 THEN a ELSE Gcd(b, a % b)

RECURSIVE SetLcm(_)
SetLcm(S) ==
    IF S = {} THEN 1
    ELSE LET x == CHOOSE y \in S : TRUE
             rest == SetLcm(S \ {x})
         IN  (x * rest) \div Gcd(x, rest)

\* A common multiple of the numbers of cells a zone can have.
ZoneScale == SetLcm({Cardinality(UNION F) : F \in SUBSET ZoneShapes} \ {0})

\* The resampled cells of the zone z: the features that share the value z
\* of the zone field form one zone.
ZoneCellsOf(features, z) ==
    UNION {features[i].cells : i \in {j \in DOMAIN features : features[j].id = z}}

RECURSIVE SumOver(_, _)
SumOver(values, S) ==
    IF S = {} THEN 0
    ELSE LET u == CHOOSE x \in S : TRUE
         IN  values[u] + SumOver(values, S \ {u})

\* The mean of the values over a non-empty set of cells, in 1 / ZoneScale.
MeanOver(values, S) == (SumOver(values, S) * ZoneScale) \div Cardinality(S)

\* ZonalStatisticsAsTable_sa(zones, zone_field, raster, table, "DATA",
\* "MEAN"): one row per zone that has a cell with data, holding the mean of
\* the cells with data.
ZonalStatisticsAsTable(features, values) ==
    LET data(z) == {u \in ZoneCellsOf(features, z) : values[u] # NoData}
    IN  [z \in {features[i].id : i \in {j \in DOMAIN features : data(features[j].id) # {}}} |->
            MeanOver(values, data(z))]

\* A variant of CalcZonalStats that leaves the NoData cells as they are.
CalcZonalStats_NoFill(features, in_value_raster) ==
    ZonalStatisticsAsTable(features, Resample(in_value_raster.v))

\* CalcZonalStats: NoData becomes 0, the raster is resampled, the zonal mean
\* table is written.  The result is the table out_table.
CalcZonalStats(features, in_value_raster) ==
    ZonalStatisticsAsTable(
        features,
        Resample(Con(IsNull(in_value_raster.v), ConstRaster(0),
                     in_value_raster.v)))

\* field.name.lower() on the field names of the zone table.
Lower(name) ==
    CASE name = "GRSG_Pre_Project" -> "grsg_pre_project"
      [] name = "GrSG_Post_Project" -> "grsg_post_project"
      [] name = "Mule_Pre_Summer" -> "mule_pre_summer"
      [] name = "Mule_Post_Summer" -> "mule_post_summer"
      [] name = "GRSG_Pre_Project_A" -> "grsg_pre_project_a"
      [] name = "GrSG_Post_Project_A" -> "grsg_post_project_a"
      [] name = "MEAN" -> "mean"
      [] name = "Acres" -> "acres"
      [] name = "ZONAL" -> "zonal"
      [] name = "Map_Unit_ID" -> "map_unit_id"
      [] name = "Debits" -> "debits"
      [] name = "Debits_adj" -> "debits_adj"
      [] name = "Mule_Summer_Impact" -> "mule_summer_impact"
      [] name = "Mule_Summer_Benefit" -> "mule_summer_benefit"
      [] OTHER -> name

\* arcpy.DeleteField_management for each of the names.
DeleteField(table, names) ==
    [i \in DOMAIN table |-> [f \in (DOMAIN table[i]) \ names |-> table[i][f]]]

\* arcpy.JoinField_management(in_data, zone_field, joinTable, joinField,
\* field): every row gets the field, with the value of the join table row of
\* its zone, <Null> where the join table has no such row.
JoinField(table, zone_field, joinTable, field) ==
    [i \in DOMAIN table |->
        [f \in (DOMAIN table[i]) \cup {field} |->
            IF f # field THEN table[i][f]
            ELSE IF table[i][zone_field] \in DOMAIN joinTable
                 THEN joinTable[table[i][zone_field]]
                 ELSE Null]]

\* arcpy.AlterField_management(in_data, field, new_name)
AlterField(table, field, new_name) ==
    [i \in DOMAIN table |->
        [f \in ((DOMAIN table[i]) \ {field}) \cup {new_name} |->
            IF f = new_name THEN table[i][field] ELSE table[i][f]]]

\* A variant of JoinMeanToTable that deletes no field before the join.
JoinMeanToTable_Keep(in_data, zonal_stats, zone_field, field_name) ==
    AlterField(JoinField(in_data, zone_field, zonal_stats, "MEAN"),
               "MEAN", field_name)

\* A variant of JoinMeanToTable that writes 0 where the join finds no row.
JoinMeanToTable_ZeroFill(in_data, zonal_stats, zone_field, field_name) ==
    [i \in DOMAIN in_data |->
        [f \in {g \in DOMAIN in_data[i] :
                    Lower(g) # Lower(field_name) /\ g # "MEAN"}
               \cup {field_name} |->
            IF f # field_name THEN in_data[i][f]
            ELSE IF in_data[i][zone_field] \in DOMAIN zonal_stats
                 THEN zonal_stats[in_data[i][zone_field]]
                 ELSE 0]]

\* JoinMeanToTable: the fields named field_name (whatever the case) and
\* MEAN are deleted, MEAN is joined from the statistics table and renamed.
JoinMeanToTable(in_data, zonal_stats, zone_field, field_name) ==
    AlterField(
        JoinField(
            DeleteField(in_data,
                        {f \in DOMAIN in_data[1] :
                             Lower(f) = Lower(field_name) \/ f = "MEAN"}),
            zone_field, zonal_stats, "MEAN"),
        "MEAN", field_name)

\* The value rasters handed to CalcZonalStats, values 0..100.
ValueChoices ==
    {SR(1, Strip(<<NoData, 100, 50, 0>>)), SR(1, Strip(<<40, 40, 40, 40>>))}

\* The zone field of the caller: ZONAL, 1 in every row, in the Debit tools;
\* Map_Unit_ID, one value per row, in the Credit tool.
ZoneFieldOf(args) ==
    IF args.tool = "CreditTool_2" THEN "Map_Unit_ID" ELSE "ZONAL"

ZoneIdOf(args, i) == IF args.tool = "CreditTool_2" THEN i ELSE 1

\* The name of the statistics table of a term.
StatsTableOf(args, term) ==
    CASE args.tool = "DebitTool_4" -> "GRSG_Stats_" \o term \o "_adjusted"
      [] args.tool = "DebitTool_2" /\ args.out_field = "Debits" ->
             "GRSG_Stats_" \o term
      [] args.tool = "CreditTool_2" /\ term = "Post" ->
             "Mule_Stats_" \o term \o "Summer"
      [] OTHER -> "Mule_Stats_" \o term \o "_Summer"

\* The fields a zone table can hold from an earlier run: the pre and post
\* fields in the same or in lower case, a MEAN field left by a run that
\* stopped between the join and the renaming.
Leftovers == {"none", "same", "lower", "MEAN", "lower and MEAN"}

LeftoverFields(args, kind) ==
    (IF kind = "same" THEN {args.pre_field, args.post_field} ELSE {})
    \cup (IF kind \in {"lower", "lower and MEAN"}
          THEN {Lower(args.pre_field), Lower(args.post_field)} ELSE {})
    \cup (IF kind \in {"MEAN", "lower and MEAN"} THEN {"MEAN"} ELSE {})

\* A row of the zone table before the zonal statistics: ten acres, and 7 in
\* every field left by an earlier run.
ZonalRow(args, kind, id) ==
    [f \in {"Acres", ZoneFieldOf(args)} \cup LeftoverFields(args, kind) |->
        IF f = "Acres" THEN 10
        ELSE IF f = ZoneFieldOf(args) THEN id ELSE 7]

InitZonal ==
    /\ written = <<>>
    /\ species = "GrSG"
    /\ Parameter_Values = <<>>
    /\ proposed = {}
    /\ unique_proposed_subtypes = {}
    /\ call = NoCall
    /\ ws = <<>>
    /\ surface = None
    /\ debitArgs \in Callers
    /\ \E shapes \in [1..NZones -> ZoneShapes], pre \in ValueChoices,
          post \in ValueChoices, kind \in Leftovers :
          sample = [features |-> [i \in 1..NZones |->
                                     [id |-> ZoneIdOf(debitArgs, i),
                                      cells |-> shapes[i]]],
                    zone_field |-> ZoneFieldOf(debitArgs),
                    finalPre |-> pre, finalPost |-> post, leftover |-> kind]
    /\ zoneTable = [i \in 1..NZones |->
                      ZonalRow(debitArgs, sample.leftover,
                               ZoneIdOf(debitArgs, i))]
    /\ cursor = 0
    /\ messages = <<>>
    /\ pc = "zonalPre"

\* hqtlib.CalcZonalStats(inZoneData, zoneField, inValueRaster, outTable)
ZonalStep(at, next, term, inValueRaster) ==
    /\ pc = at
    /\ ws' = Save(ws, StatsTableOf(debitArgs, term),
                  CalcZonalStats(sample.features, inValueRaster))
    /\ pc' = next
    /\ UNCHANGED <<anthroVars, written, unique_proposed_subtypes, call, debitVars,
                   unitVars>>

\* hqtlib.JoinMeanToTable(inZoneData, outTable, zoneField, fieldName)
JoinStep(at, next, term, fieldName) ==
    /\ pc = at
    /\ zoneTable' = JoinMeanToTable(zoneTable,
                                    ws[StatsTableOf(debitArgs, term)],
                                    sample.zone_field, fieldName)
    /\ pc' = next
    /\ UNCHANGED <<anthroVars, written, unique_proposed_subtypes, ws, call, debitArgs,
                   cursor, messages, unitVars>>

ZonalPre == ZonalStep("zonalPre", "joinPre", "Pre", sample.finalPre)

JoinPre == JoinStep("joinPre", "zonalPost", "Pre", debitArgs.pre_field)

ZonalPost == ZonalStep("zonalPost", "joinPost", "Post", sample.finalPost)

JoinPost == JoinStep("joinPost", "calcDebits", "Post", debitArgs.post_field)

NextZonal ==
    \/ ZonalPre
    \/ JoinPre
    \/ ZonalPost
    \/ JoinPost
    \/ AddField
    \/ UpdateRow
    \/ CloseCursor

SpecZonal == InitZonal /\ [][NextZonal]_vars

-----------------------------------------------------------------------------
(* Credit Tool 2: the sage-grouse anthropogenic disturbance before and     *)
(* after the removal of features, and the uplift.                          *)

CURRENT_ANTHRO_DISTURBANCE == "GRSG_Pre_Anthro_Disturbance"
PROJECTED_ANTHRO_DISTURBANCE == "GRSG_Post_Anthro_Disturbance"
PROPOSED_MODIFIED_FEATURES == "Proposed_Modified_Features"

\* SetNull(in_conditional, false_raster, "Value = 1"): NoData where the
\* conditional raster is 1 (or NoData), the false raster elsewhere.
SetNullValueOne(in_conditional, false_raster) ==
    [c \in Cells |->
        IF in_conditional[c] = NoData \/ in_conditional[c] = 1 THEN NoData
        ELSE false_raster[c]]

\* convertProposedToRasterCredit: the features of one subtype are converted
\* with value_field "Weight", and saved as "Proposed_<subtype>" with 0 in
\* place of NoData.
RECURSIVE convertProposedToRasterCredit(_, _, _)
convertProposedToRasterCredit(features, subtypes, w) ==
    IF subtypes = {} THEN w
    ELSE LET subtype == CHOOSE x \in subtypes : TRUE
             selected == {f \in features : f.Subtype = subtype}
             out_rasterdataset == FeaturesToRaster(selected)
             out_con == Con(IsNull(out_rasterdataset), ConstRaster(0),
                            out_rasterdataset)
         IN  convertProposedToRasterCredit(
                 features, subtypes \ {subtype},
                 Save(w, "Proposed_" \o subtype, SR(1, out_con)))

\* combineProposedWithCurrentCredit: "Post_<subtype>" is the current raster
\* without the cells where the proposed raster is 1.
RECURSIVE combineProposedWithCurrentCredit(_, _)
combineProposedWithCurrentCredit(uniqueProposedSubtypes, w) ==
    IF uniqueProposedSubtypes = {} THEN w
    ELSE LET subtype == CHOOSE x \in uniqueProposedSubtypes : TRUE
             currentAnthroFeature == w[AnthroPath(subtype)].v
             proposedAnthroFeature == w["Proposed_" \o subtype].v
             postAnthroFeature ==
                 SetNullValueOne(proposedAnthroFeature, currentAnthroFeature)
         IN  combineProposedWithCurrentCredit(
                 uniqueProposedSubtypes \ {subtype},
                 Save(w, "Post_" \o subtype, SR(1, postAnthroFeature)))

\* The cells a feature of Proposed_Modified_Features may cover.
RemovedCells == {1, 2}

\* Proposed_Modified_Features: absent, or one feature of a subtype.
RemovedFeatures ==
    {{}} \cup {{[Subtype |-> SubtypeNames[i], cell |-> c, Weight |-> w]} :
                  i \in Rows, c \in RemovedCells, w \in WeightColumn}

InitCredit ==
    /\ species = "GrSG"
    /\ \E types \in TypeColumns(species), dw \in [Rows -> DistWeight] :
          Parameter_Values =
              [i \in Rows |->
                  ParameterRow(types[i], SubtypeNames[i], dw[i], <<0, 0>>,
                               <<0, 0>>, 1)]
    /\ proposed \in RemovedFeatures
    /\ unique_proposed_subtypes = {}
    /\ ws = InitialWorkspace
    /\ call = NoCall
    /\ written = <<>>
    /\ NoDebits
    /\ NoSample
    /\ pc = "creditPre"

\* CreditTool_2.py 338-350
CreditPre ==
    RunCall("creditPre", "creditProposed", CURRENT_ANTHRO_DISTURBANCE,
            CreditTerms[1], "Pre", "GrSG_Dist", "GrSG_Weight", None)

\* CreditTool_2.py 417-424: Proposed_Modified_Features exists.
CreditProposed ==
    /\ pc = "creditProposed"
    /\ proposed # {}
    /\ unique_proposed_subtypes' = {f.Subtype : f \in proposed}
    /\ ws' = combineProposedWithCurrentCredit(
                 {f.Subtype : f \in proposed},
                 convertProposedToRasterCredit(
                     proposed, {f.Subtype : f \in proposed}, ws))
    /\ written' = written
                   \o WrittenBy(pc, ProposedLog(
                                        PROPOSED_MODIFIED_FEATURES,
                                        Listed({f.Subtype : f \in proposed}))
                                    \o CombinedLog(
                                        Listed({f.Subtype : f \in proposed})))
    /\ pc' = "creditPost"
    /\ UNCHANGED <<anthroVars, call, debitVars, unitVars>>

\* CreditTool_2.py 459-460: Projected_Anthro_Disturbance is
\* Current_Anthro_Disturbance, and no uplift is calculated.
CreditUnchanged ==
    /\ pc = "creditProposed"
    /\ proposed = {}
    /\ pc' = "done"
    /\ UNCHANGED <<anthroVars, written, unique_proposed_subtypes, ws, call, debitVars, unitVars>>

\* CreditTool_2.py 430-440
CreditPost ==
    RunCall("creditPost", "creditUplift", PROJECTED_ANTHRO_DISTURBANCE,
            CreditTerms[2], "Post", "GrSG_Dist", "GrSG_Weight", None)

\* CreditTool_2.py 445-448: anthroUplift = calcUplift(
\* Current_Anthro_Disturbance, Projected_Anthro_Disturbance)
CreditUplift ==
    /\ pc = "creditUplift"
    /\ surface' = calcUplift(ws[CURRENT_ANTHRO_DISTURBANCE],
                             ws[PROJECTED_ANTHRO_DISTURBANCE])
    /\ written' = written
                   \o WrittenBy(pc, <<Event("uplift", "anthroUplift",
                                            {CURRENT_ANTHRO_DISTURBANCE,
                                             PROJECTED_ANTHRO_DISTURBANCE})>>)
    /\ pc' = "done"
    /\ UNCHANGED <<anthroVars, unique_proposed_subtypes, ws, call, debitVars, sample>>

NextCredit ==
    \/ CreditPre
    \/ CreditProposed
    \/ CreditUnchanged
    \/ CreditPost
    \/ CreditUplift

SpecCredit == InitCredit /\ [][NextCredit]_vars

-----------------------------------------------------------------------------
(* Credit Tool 2, mule deer: the anthropogenic disturbance of both terms    *)
(* (CreditTool_2.py 576-714).                                               *)

CURRENT_ANTHRO_DISTURBANCE_MD == "MuleDeer_Pre_Anthro_Disturbance"
PROJECTED_ANTHRO_DISTURBANCE_MD == "MuleDeer_Post_Anthro_Disturbance"

InitCreditMule ==
    /\ species = "Mule"
    /\ \E types \in TypeColumns(species), dw \in [Rows -> DistWeight],
          open \in DistWeight :
          Parameter_Values =
              [i \in Rows |->
                  ParameterRow(types[i], SubtypeNames[i], <<0, 0>>, dw[i],
                               open, 1)]
    /\ proposed \in RemovedFeatures
    /\ unique_proposed_subtypes = {}
    /\ ws = InitialWorkspace
    /\ call = NoCall
    /\ written = <<>>
    /\ NoDebits
    /\ NoSample
    /\ pc = "creditMulePJPre"

\* CreditTool_2.py 596-609
CreditMulePJPre ==
    RunCall("creditMulePJPre", "creditMuleOpenPre",
            CURRENT_ANTHRO_DISTURBANCE_MD \o "_P",
            CreditTerms[1], "Pre", "MDP_Dist", "MDP_Weight", None)

\* CreditTool_2.py 611-623
CreditMuleOpenPre ==
    RunCall("creditMuleOpenPre", "creditMuleCombinePre",
            CURRENT_ANTHRO_DISTURBANCE_MD \o "_O",
            CreditTerms[1], "Pre", "MDO_Dist", "MDO_Weight", BWMD_Open(ws))

\* CreditTool_2.py 625-636
CreditMuleCombinePre ==
    MuleCombine("creditMuleCombinePre", "creditMulePost",
                CURRENT_ANTHRO_DISTURBANCE_MD, TRUE)

\* CreditTool_2.py 699-714: Proposed_Modified_Features exists.  One call,
\* with the dist_field and weight_field the open call of Pre left, the
\* unique_proposed_subtypes of lines 601 and 615, and no mask.
CreditMulePost ==
    /\ proposed # {}
    /\ RunCall("creditMulePost", "done", PROJECTED_ANTHRO_DISTURBANCE_MD,
               CreditTerms[2], "Post", "MDO_Dist", "MDO_Weight", None)

\* CreditTool_2.py 699: Proposed_Modified_Features does not exist.
CreditMuleUnchanged ==
    /\ pc = "creditMulePost"
    /\ proposed = {}
    /\ pc' = "done"
    /\ UNCHANGED <<anthroVars, written, unique_proposed_subtypes, ws, call, debitVars, unitVars>>

NextCreditMule ==
    \/ CreditMulePJPre
    \/ CreditMuleOpenPre
    \/ CreditMuleCombinePre
    \/ CreditMulePost
    \/ CreditMuleUnchanged

SpecCreditMule == InitCreditMule /\ [][NextCreditMule]_vars

-----------------------------------------------------------------------------
(* The checks of the provided layers at the start of Debit Tool 2 and      *)
(* Credit Tool 2 (hqtlib.CheckPolygonInput and its callers).               *)

\* The most rows a provided layer holds.
MaxRows == 1

\* "Direct_" + row[0], on the codes that stand for field values.
Direct(value) == 10 + value

\* A provided layer: its shape type, the names of its fields and its rows,
\* each a value or <Null> per field.
Layers(fields) ==
    UNION {[shapeType : {"Polygon", "Polyline"}, fields : {present},
            rows : UNION {[1..n -> [present -> {Null, 1}]] : n \in 0..MaxRows}] :
               present \in SUBSET fields}

\* The arguments of the two checks of a tool.  None for a list is the
\* empty list: both skip the loop.
CheckArgs(tool) ==
    IF tool = "DebitTool_2"
    THEN <<[parameter_name |-> "Proposed_Surface_Disturbance_Debits",
            required_fields |-> <<"Type", "Subtype", "Surface_Disturbance">>,
            expected_fcs |-> <<>>,
            no_null_fields |-> <<"Type", "Subtype", "Surface_Disturbance">>],
           [parameter_name |-> PROPOSED_MODIFIED_FEATURES,
            required_fields |-> <<"Type", "Subtype">>,
            expected_fcs |-> <<>>,
            no_null_fields |-> <<"Type", "Subtype">>]>>
    ELSE <<[parameter_name |-> "Map_Units",
            required_fields |-> <<"Map_Unit_ID", "Map_Unit_Name">>,
            expected_fcs |-> <<"Credit_Project_Area">>,
            no_null_fields |-> <<"Map_Unit_ID">>],
           [parameter_name |-> PROPOSED_MODIFIED_FEATURES,
            required_fields |-> <<"Type", "Subtype">>,
            expected_fcs |-> <<>>,
            no_null_fields |-> <<"Type", "Subtype">>]>>

\* The elements of a list.
Range(list) == {list[i] : i \in DOMAIN list}

\* The AddError calls of the loop over no_null_fields: one for every row of
\* every field that holds <Null>.
RECURSIVE NullErrors(_, _)
NullErrors(feature, no_null_fields) ==
    IF no_null_fields = <<>> THEN <<>>
    ELSE LET field == Head(no_null_fields)
             HoldsNull(row) == row[field] = Null
         IN  [i \in 1..Len(SelectSeq(feature.rows, HoldsNull)) |->
                 [error |-> "contains Null values", about |-> field]]
             \o NullErrors(feature, Tail(no_null_fields))

\* CheckPolygonInput without the test of the feature count.
CheckPolygonInput_NoCount(feature, required_fields, expected_fcs, no_null_fields, w) ==
    LET shape == IF feature.shapeType # "Polygon"
                 THEN <<[error |-> "not a polygon", about |-> ""]>>
                 ELSE <<>>
        Missing(field) == field \notin feature.fields
        lacking == [i \in 1..Len(SelectSeq(required_fields, Missing)) |->
                       [error |-> "required field not present",
                        about |-> SelectSeq(required_fields, Missing)[i]]]
        status3 == IF lacking # <<>> THEN 3
                   ELSE IF shape # <<>> THEN 1 ELSE 0
        nulls == IF status3 = 3 THEN <<>>
                 ELSE NullErrors(feature, no_null_fields)
        status4 == IF nulls # <<>> THEN 4 ELSE status3
        Absent(fc) == fc \notin DOMAIN w
        notFound == [i \in 1..Len(SelectSeq(expected_fcs, Absent)) |->
                        [error |-> "expected feature class not found",
                         about |-> SelectSeq(expected_fcs, Absent)[i]]]
        status5 == IF notFound # <<>> THEN 5 ELSE status4
    IN  [errorStatus |-> status5,
         errors |-> shape \o lacking \o nulls \o notFound]

\* CheckPolygonInput(feature, required_fields, expected_fcs,
\* no_null_fields) in the workspace w: the last errorStatus assigned and the
\* AddError calls made, in order.  The function exits when errorStatus > 0.
CheckPolygonInput(feature, required_fields, expected_fcs, no_null_fields, w) ==
    LET shape == IF feature.shapeType # "Polygon"
                 THEN <<[error |-> "not a polygon", about |-> ""]>>
                 ELSE <<>>
        status1 == IF shape # <<>> THEN 1 ELSE 0
        count == Len(feature.rows)
        empty == IF count = 0
                 THEN <<[error |-> "is empty", about |-> ""]>>
                 ELSE <<>>
        status2 == IF count = 0 THEN 2 ELSE status1
        Missing(field) == field \notin feature.fields
        lacking == [i \in 1..Len(SelectSeq(required_fields, Missing)) |->
                       [error |-> "required field not present",
                        about |-> SelectSeq(required_fields, Missing)[i]]]
        status3 == IF lacking # <<>> THEN 3 ELSE status2
        nulls == IF status3 = 3 THEN <<>>
                 ELSE NullErrors(feature, no_null_fields)
        status4 == IF nulls # <<>> THEN 4 ELSE status3
        Absent(fc) == fc \notin DOMAIN w
        notFound == [i \in 1..Len(SelectSeq(expected_fcs, Absent)) |->
                        [error |-> "expected feature class not found",
                         about |-> SelectSeq(expected_fcs, Absent)[i]]]
        status5 == IF notFound # <<>> THEN 5 ELSE status4
    IN  [errorStatus |-> status5,
         errors |-> shape \o empty \o lacking \o nulls \o notFound]

\* util.AdoptParameter(provided_input, parameter_name,
\* preserve_existing=False): the layer of that name is replaced by a copy
\* of the provided one.
AdoptParameter(w, provided_input, parameter_name) ==
    Save(w, parameter_name, provided_input)

\* util.AddFields and the update cursor of DebitTool_2.py 166-176: every row
\* gets Disturbance_Type, made from its Surface_Disturbance.
WithDisturbanceType(feature) ==
    [shapeType |-> feature.shapeType,
     fields |-> feature.fields \cup {"Disturbance_Type"},
     rows |-> [i \in DOMAIN feature.rows |->
                  [f \in feature.fields \cup {"Disturbance_Type"} |->
                      IF f = "Disturbance_Type"
                      THEN Direct(feature.rows[i]["Surface_Disturbance"])
                      ELSE feature.rows[i][f]]]]

\* The project geodatabase before the run: with or without the
\* Credit_Project_Area of Credit Tool 1.
ProjectWorkspaces ==
    {<<>>, [n \in {"Credit_Project_Area"} |->
               [shapeType |-> "Polygon", fields |-> {}, rows |-> <<>>]]}

InitCheck ==
    /\ species = "GrSG"
    /\ Parameter_Values = <<>>
    /\ proposed = {}
    /\ unique_proposed_subtypes = {}
    /\ written = <<>>
    /\ NoDebits
    /\ surface = None
    /\ \E tool \in {"DebitTool_2", "CreditTool_2"} :
          \E first \in Layers(Range(CheckArgs(tool)[1].required_fields)),
             second \in Layers(Range(CheckArgs(tool)[2].required_fields)),
             provided \in BOOLEAN, w \in ProjectWorkspaces :
             /\ sample = [tool |-> tool, workspace |-> w,
                          provided |-> <<first, second>>,
                          Proposed_Modified_Features_Provided |-> provided]
             /\ ws = w
    /\ call = [checked |-> 0, errorStatus |-> 0, workspace |-> ws]
    /\ pc = "checkFirst"

\* hqtlib.CheckPolygonInput(...) for the i-th provided layer of the tool.
Check(i, at, next) ==
    /\ pc = at
    /\ LET args == CheckArgs(sample.tool)[i]
           r == CheckPolygonInput(sample.provided[i], args.required_fields,
                                  args.expected_fcs, args.no_null_fields, ws)
       IN  /\ messages' = messages \o r.errors
           /\ call' = [checked |-> i, errorStatus |-> r.errorStatus,
                       workspace |-> ws]
           /\ pc' = IF r.errorStatus > 0 THEN "exit" ELSE next
    /\ UNCHANGED <<anthroVars, written, unique_proposed_subtypes, ws, zoneTable, debitArgs, cursor, unitVars>>

\* DebitTool_2.py 148-154, CreditTool_2.py 157-167
CheckFirst == Check(1, "checkFirst", "adoptFirst")

\* DebitTool_2.py 156-187 (the layer adopted, Disturbance_Type added, the
\* Indirect_Impact_Area made from it); CreditTool_2.py 169-180.
AdoptFirst ==
    /\ pc = "adoptFirst"
    /\ LET name == CheckArgs(sample.tool)[1].parameter_name
           adopted == AdoptParameter(ws, sample.provided[1], name)
       IN  ws' = IF sample.tool = "DebitTool_2"
                 THEN Save(Save(adopted, name, WithDisturbanceType(adopted[name])),
                           "Indirect_Impact_Area",
                           [shapeType |-> "Polygon", fields |-> {},
                            rows |-> adopted[name].rows])
                 ELSE adopted
    /\ pc' = IF sample.Proposed_Modified_Features_Provided
             THEN "checkSecond" ELSE "checked"
    /\ UNCHANGED <<anthroVars, written, unique_proposed_subtypes, call, debitVars, unitVars>>

\* DebitTool_2.py 192-204, CreditTool_2.py 182-192
CheckSecond == Check(2, "checkSecond", "adoptSecond")

\* DebitTool_2.py 206-212, CreditTool_2.py 194-200
AdoptSecond ==
    /\ pc = "adoptSecond"
    /\ ws' = AdoptParameter(ws, sample.provided[2],
                            CheckArgs(sample.tool)[2].parameter_name)
    /\ pc' = "checked"
    /\ UNCHANGED <<anthroVars, written, unique_proposed_subtypes, call, debitVars, unitVars>>

NextCheck ==
    \/ CheckFirst
    \/ AdoptFirst
    \/ CheckSecond
    \/ AdoptSecond

SpecCheck == InitCheck /\ [][NextCheck]_vars

-----------------------------------------------------------------------------
(* Properties.                                                             *)

\* The rows the cursor has passed hold Acres * (pre - post) in the output
\* field, and the log holds one message per such row with that value.
RowsWritten ==
    \A i \in 1..cursor :
        LET row == zoneTable[i]
            value == row["Acres"] * (row[debitArgs.pre_field]
                                     - row[debitArgs.post_field])
        IN  /\ row[debitArgs.out_field] = value
            /\ messages[i] = [pre_field |-> debitArgs.pre_field,
                              post_field |-> debitArgs.post_field,
                              value |-> value]
            /\ (row["Acres"] = 10 /\ row[debitArgs.pre_field] = 6
                /\ row[debitArgs.post_field] = 4) => value = 20

\* C1: calcDebits writes out_field = Acres * (pre_field - post_field) in
\* every zone row (Acres 10, pre 0.6, post 0.4 give 2.0), whichever tool
\* calls it, credit or debit, and logs one message per zone with that value:
\* at every moment this holds of the rows the cursor has passed, and when
\* calcDebits returns the cursor has passed every row.
C1_calcDebits ==
    /\ debitArgs \in Callers
    /\ cursor \in 0..Len(zoneTable)
    /\ Len(messages) = cursor
    /\ RowsWritten
    /\ pc = "done" => cursor = Len(zoneTable)

C1_Witness ==
    /\ pc = "done"
    /\ debitArgs.tool = "CreditTool_2"
    /\ Len(messages) = NZones
    /\ \E i \in 1..NZones :
          /\ zoneTable[i]["Acres"] = 10
          /\ zoneTable[i][debitArgs.pre_field] = 6
          /\ zoneTable[i][debitArgs.post_field] = 4
          /\ zoneTable[i][debitArgs.out_field] = 20
          /\ messages[i].value = 20
    /\ \E i \in 1..NZones :
          zoneTable[i][debitArgs.out_field] < 0

\* The cells of a presence raster that hold a feature.
PresenceCells(AnthroFeatures) == {c \in Cells : AnthroFeatures[c] # NoData}

\* The distance from cell c to the nearest presence cell, uncapped (beyond
\* every distance of the extent when there is no presence cell).
NearestDistance(AnthroFeatures, c) ==
    IF PresenceCells(AnthroFeatures) = {} THEN (NCells + 1) * CellSize
    ELSE SetMin({Abs(c - p) * CellSize : p \in PresenceCells(AnthroFeatures)})

DecayReturned == pc = "returned" /\ sample.distance > 0

\* C2 (as amended): for a subtype with Distance d > 0 and Weight w, the
\* surface at a presence cell (dist = 0) is 100 - w / (1 + e^-5), about
\* 100 - 0.9933 w: it lies between 100 - w and 100 - 0.99 w, and is not
\* 100 - w itself.
C2_DecayAtPresence ==
    DecayReturned =>
        \A c \in PresenceCells(sample.AnthroFeatures) :
            /\ surface.v[c] >= (100 - sample.weight) * Tenths
            /\ surface.v[c] * 100 <= (10000 - 99 * sample.weight) * Tenths

C2_Witness ==
    /\ DecayReturned
    /\ sample.weight = 100
    /\ \E c \in PresenceCells(sample.AnthroFeatures) :
          surface.v[c] > 0 /\ surface.v[c] < Tenths

\* C2 as stated: the surface is exactly 100 - w at every presence cell.
C2_Stated ==
    DecayReturned =>
        \A c \in PresenceCells(sample.AnthroFeatures) :
            surface.v[c] = (100 - sample.weight) * Tenths

\* C3: for Distance d > 0 and Weight w in [0,100] the decay value does not
\* decrease with the distance to the nearest presence cell, is within one
\* hundredth of w (so within 1) of 100 at every cell at distance >= d, and
\* is exactly 100 where the capped distance transform returns NoData.
C3_DecayMonotone ==
    DecayReturned =>
        /\ \A c1, c2 \in Cells :
              NearestDistance(sample.AnthroFeatures, c1)
                  <= NearestDistance(sample.AnthroFeatures, c2)
              => surface.v[c1] <= surface.v[c2]
        /\ \A c \in Cells :
              NearestDistance(sample.AnthroFeatures, c) >= sample.distance
              => /\ surface.v[c] <= 100 * Tenths
                 /\ (100 * Tenths - surface.v[c]) * 100
                        <= sample.weight * Tenths
        /\ \A c \in Cells :
              EucDistance(sample.AnthroFeatures, sample.distance,
                          CellSize)[c] = NoData
              => surface.v[c] = 100 * Tenths

C3_Witness ==
    /\ DecayReturned
    /\ sample.weight = 100
    /\ \E c1, c2, c3, c4 \in Cells :
          /\ NearestDistance(sample.AnthroFeatures, c1) = 0
          /\ NearestDistance(sample.AnthroFeatures, c2) = CellSize
          /\ NearestDistance(sample.AnthroFeatures, c3) = sample.distance
          /\ NearestDistance(sample.AnthroFeatures, c4) > sample.distance
          /\ surface.v[c1] < surface.v[c2]
          /\ surface.v[c2] < surface.v[c3]
          /\ surface.v[c3] < surface.v[c4]
          /\ surface.v[c4] = 100 * Tenths

\* A CalcAnthroDisturbance call has returned.
Called == call.result # ""

\* The subtypes the last call visited.
Visited == 1..Len(call.evals)

\* The visits of the last call that made a subtype surface.
Surfaces == {i \in Visited : call.evals[i].raster # None}

\* C4 as stated: for a subtype with Distance = 0 and Weight w > 0 the
\* surface is 100 - w at every cell with direct presence and exactly 100 at
\* every other cell.
C4_Stated ==
    Called =>
        \A i \in Surfaces :
            LET e == call.evals[i]
            IN  (e.distance = 0 /\ e.weight > 0) =>
                    \A c \in Cells :
                        e.raster.v[c] =
                            IF e.source[c] # NoData
                            THEN (100 - e.weight) * Tenths
                            ELSE 100 * Tenths

\* C5 as stated: with all Weights in [0,100], every cell of every subtype
\* surface lies in [0,100].
C5_Stated ==
    Called =>
        \A i \in Surfaces : \A c \in Cells :
            /\ call.evals[i].raster.v[c] >= 0
            /\ call.evals[i].raster.v[c] <= 100 * Tenths

\* The types of the Parameter Values table at least one of whose subtypes
\* made a surface in the last call.
ContributingTypes == {call.evals[i].Type : i \in Surfaces}

\* C6: a subtype with Distance = 0 and Weight = 0 yields no surface, and the
\* list of Type surfaces of a call holds one surface for each Type with a
\* subtype that made a surface, and none for any other Type.
C6_InertOmitted ==
    Called =>
        /\ \A i \in Visited :
              (call.evals[i].distance = 0 /\ call.evals[i].weight = 0)
              => call.evals[i].raster = None
        /\ Len(call.rasterList) = Len(call.typeNames)
        /\ Len(call.typeNames) = Cardinality(ContributingTypes)
        /\ {call.typeNames[k] : k \in 1..Len(call.typeNames)}
               = ContributingTypes

C6_Witness ==
    /\ Called
    /\ \E i, j \in Visited :
          /\ call.evals[i].distance = 0 /\ call.evals[i].weight = 0
          /\ call.evals[i].features # NoFeatures
          /\ call.evals[i].Type \notin ContributingTypes
          /\ call.evals[j].Type \in ContributingTypes
          /\ call.evals[j].Type # call.evals[i].Type

\* The visits of the last call that made a surface for the Type t.
SurfacesOf(t) == {i \in Surfaces : call.evals[i].Type = t}

\* C7: each Type surface is, at every cell, the minimum of the subtype
\* surfaces of the Type divided by 100; with a single subtype surface it is
\* that surface divided by 100.
C7_TypeMinimum ==
    Called =>
        \A k \in 1..Len(call.typeNames) :
            LET subs == SurfacesOf(call.typeNames[k])
            IN  /\ subs # {}
                /\ call.rasterList[k].s = 100 * Tenths
                /\ \A c \in Cells :
                      call.rasterList[k].v[c] =
                          SetMin({call.evals[i].raster.v[c] : i \in subs})
                /\ \A i \in subs :
                      subs = {i} =>
                          call.rasterList[k].v = call.evals[i].raster.v

C7_Witness ==
    /\ Called
    /\ \E k \in 1..Len(call.typeNames) :
          \E i, j \in SurfacesOf(call.typeNames[k]) : \E c1, c2 \in Cells :
              /\ call.evals[i].raster.v[c1] < call.evals[j].raster.v[c1]
              /\ call.evals[j].raster.v[c2] < call.evals[i].raster.v[c2]
              /\ call.rasterList[k].v[c1] = call.evals[i].raster.v[c1]
              /\ call.rasterList[k].v[c2] = call.evals[j].raster.v[c2]
    /\ \E k \in 1..Len(call.typeNames) :
          Cardinality(SurfacesOf(call.typeNames[k])) = 1

\* The background indices that apply to the last call.
BackgroundIndices ==
    IF call.args.anthro_disturbance_type \in {"Pre", "Post"} THEN
        IF call.args.dist_field = "GrSG_Dist"
        THEN <<ws["InputData.gdb/GrSG_Ag_Index"], ws["InputData.gdb/Lakes"]>>
        ELSE <<ws["InputData.gdb/Lakes"]>>
    ELSE <<ws["InputData.gdb/Extent_Raster"]>>

\* The product of the values a set of rasters of a list holds in one cell.
RECURSIVE CellProduct(_, _, _)
CellProduct(rasters, idx, c) ==
    IF idx = {} THEN 1
    ELSE LET i == CHOOSE x \in idx : TRUE
         IN  rasters[i].v[c] * CellProduct(rasters, idx \ {i}, c)

RECURSIVE ScaleProduct(_, _)
ScaleProduct(rasters, idx) ==
    IF idx = {} THEN 1
    ELSE LET i == CHOOSE x \in idx : TRUE
         IN  rasters[i].s * ScaleProduct(rasters, idx \ {i})

\* The cellwise product of a list of rasters, in no particular order.
ProductOf(rasters) ==
    SR(ScaleProduct(rasters, DOMAIN rasters),
       [c \in Cells |->
           IF \E i \in DOMAIN rasters : rasters[i].v[c] = NoData THEN NoData
           ELSE CellProduct(rasters, DOMAIN rasters, c)])

\* The orders of the rows of the Parameter Values table.
RowOrders == {p \in [Rows -> Rows] : \A i, j \in Rows : p[i] = p[j] => i = j}

\* The composite of the last call had the rows of the table been in the
\* order p.
Reordered(p) ==
    CalcAnthroDisturbance(
        [Parameter_Values |-> [i \in Rows |-> Parameter_Values[p[i]]],
         term |-> call.args.term,
         unique_proposed_subtypes |-> unique_proposed_subtypes,
         anthro_disturbance_type |-> call.args.anthro_disturbance_type,
         dist_field |-> call.args.dist_field,
         weight_field |-> call.args.weight_field,
         cellSize |-> CellSize, emptyRaster |-> EmptyRaster(ws),
         mask |-> call.args.mask], ws).anthroRaster

\* C8: the composite is the cellwise product of the Type surfaces and the
\* background indices that apply, and it is the same for every order of the
\* rows (hence of the Types) of the Parameter Values table.
C8_Composite ==
    Called =>
        /\ call.anthroRaster = ProductOf(call.rasterList \o BackgroundIndices)
        /\ \A p \in RowOrders : Reordered(p) = call.anthroRaster

C8_Witness ==
    /\ Called
    /\ Len(call.rasterList) = 2
    /\ call.rasterList[1] # call.rasterList[2]
    /\ Parameter_Values[1].Type # Parameter_Values[3].Type
    /\ \E c \in Cells :
          /\ call.rasterList[1].v[c] < 100 * Tenths
          /\ call.rasterList[2].v[c] < 100 * Tenths
          /\ call.anthroRaster.v[c] > 0

\* C9: a call in which no Type contributes a surface returns the product of
\* the background indices alone: agriculture index x lakes for the
\* sage-grouse Pre/Post calls, lakes for the other Pre/Post calls, the
\* extent raster for the LekDisturbanceModifier call.
C9_BackgroundAlone ==
    (Called /\ call.rasterList = <<>>) =>
        /\ ContributingTypes = {}
        /\ ws[call.result] = call.anthroRaster
        /\ call.anthroRaster =
               IF call.args.anthro_disturbance_type = "LekDisturbanceModifier"
               THEN ws["InputData.gdb/Extent_Raster"]
               ELSE IF call.args.dist_field = "GrSG_Dist"
               THEN SMul(ws["InputData.gdb/GrSG_Ag_Index"],
                         ws["InputData.gdb/Lakes"])
               ELSE ws["InputData.gdb/Lakes"]

C9_Witness ==
    /\ Called
    /\ call.rasterList = <<>>
    /\ call.args.anthro_disturbance_type = "Pre"
    /\ call.args.dist_field = "GrSG_Dist"
    /\ \E i \in Rows : Parameter_Values[i].Type # "N/A"
    /\ \E c \in Cells : call.anthroRaster.v[c] = 1 /\ call.anthroRaster.s = 2

\* The combined mule-deer surface of a term has been saved.
MuleCombined(name) ==
    /\ name \in DOMAIN ws
    /\ (name \o "_OO") \in DOMAIN ws

\* At cell c the combined surface is the minimum of the PJ and open
\* surfaces inside the open mask, and the PJ surface outside it.
CombinedAt(name, c) ==
    LET pj == ValueAt(ws[name \o "_P"], c, ws[name].s)
        open == ValueAt(ws[name \o "_O"], c, ws[name].s)
    IN  IF BWMD_Open(ws).v[c] = 1
        THEN ws[name].v[c] = Min2(pj, open)
        ELSE ws[name].v[c] = pj

\* C10 as stated: the combined surface is min(PJ, open) at every cell inside
\* the open mask, and the PJ surface at every cell where the mask is 0 or
\* NoData.
C10_Stated ==
    \A name \in {"MuleDeer_Pre_Anthro_Disturbance",
                 "MuleDeer_Post_Anthro_Disturbance"} :
        MuleCombined(name) => \A c \in Cells : CombinedAt(name, c)

-----------------------------------------------------------------------------
(* Seasonal habitat quality.                                               *)

\* A seasonal step has run: surface holds the seasonal rasters of its term.
SeasonStepped == surface # None

\* The composite disturbance raster of the term of the last seasonal step.
SeasonAnthro ==
    IF {"GRSG_Post_Winter", "MuleDeer_Post_Winter"} \cap DOMAIN ws # {}
    THEN sample.Projected_Anthro_Disturbance
    ELSE sample.Current_Anthro_Disturbance

\* The product of the disturbance raster, the given layers of InputData.gdb
\* and, where one was supplied, the suitable-habitat mask.
TableProduct(layers) ==
    ProductOf(<<SeasonAnthro>>
              \o [i \in DOMAIN layers |-> ws["InputData.gdb/" \o layers[i]]]
              \o (IF sample.SuitableHabitat = None THEN <<>>
                  ELSE <<sample.SuitableHabitat>>))

\* The seasons whose raster is the product of the layers of their table row.
WinterAndBreedingGRSG ==
    /\ surface.first = TableProduct(<<"GrSG_Conifer_Modifier", "GrSG_LDI">>)
    /\ surface.second = TableProduct(<<"GrSG_Conifer_Modifier", "GrSG_LDI",
                                       "GrSG_Lek_Distance_Modifier">>)

SeasonsMD ==
    /\ surface.first = TableProduct(<<"Mule_Deer_LDI",
                                      "Mule_Deer_Summer_Modifier">>)
    /\ surface.second = TableProduct(<<"Mule_Deer_LDI",
                                       "Mule_Deer_Transition_Modifier">>)
    /\ surface.third = TableProduct(<<"Mule_Deer_LDI",
                                      "Mule_Deer_Winter_Modifier">>)

\* C11 as stated: every seasonal habitat raster is the cellwise product of
\* the disturbance raster and exactly the modifier layers of its season
\* (times the suitable-habitat mask when one is supplied): conifer and LDI
\* for the sage-grouse winter, the lek distance modifier in addition for
\* breeding, the sage modifier in addition for summer; LDI and the season's
\* modifier for each mule-deer season.
C11_Stated ==
    SeasonStepped =>
        IF species = "GrSG"
        THEN /\ WinterAndBreedingGRSG
             /\ surface.third = TableProduct(<<"GrSG_Conifer_Modifier",
                                               "GrSG_LDI",
                                               "GrSG_Sage_Modifier">>)
        ELSE SeasonsMD

\* The seasonal habitat rasters the tools save, <Species>_<Term>_<Season>.
PublishedSeasonal ==
    {"GRSG_Pre_Winter", "GRSG_Pre_Breeding", "GRSG_Pre_Summer",
     "GRSG_Post_Winter", "GRSG_Post_Breeding", "GRSG_Post_Summer",
     "MuleDeer_Pre_Summer", "MuleDeer_Pre_Migration", "MuleDeer_Pre_Winter",
     "MuleDeer_Post_Summer", "MuleDeer_Post_Migration", "MuleDeer_Post_Winter"}

\* Every cell of r that holds a value holds one in [0, 1].
WithinUnit(r) == \A c \in Cells : r.v[c] # NoData => 0 <= r.v[c] /\ r.v[c] <= r.s

\* C12 as stated: with every input layer in [0, 1], every cell of every
\* saved seasonal habitat raster (for sage-grouse the lek-adjusted pre- and
\* post-project rasters) lies in [0, 1].
C12_Stated ==
    \A n \in PublishedSeasonal \cap DOMAIN ws : WithinUnit(ws[n])

-----------------------------------------------------------------------------
(* Lek overrides.                                                          *)

\* Cell c of the raster out holds the value cell c of the raster r holds
\* (NoData where r holds NoData).
SameCell(out, r, c) ==
    ValueAt(out, c, CommonScale(out, r)) = ValueAt(r, c, CommonScale(out, r))

\* The raster out holds the lek value on the lek cells (lek presence 1) and
\* the value of seasonal on every other cell, lek presence 0 or NoData.
LekOverride(out, seasonal, lek, lekValue) ==
    \A c \in Cells :
        IF lek.v[c] = 1 THEN SameCell(out, lekValue, c)
        ELSE SameCell(out, seasonal, c)

\* The pre-project seasonal rasters are saved and surface still holds them
\* as they were before the lek adjustment.
PreAdjusted ==
    /\ "GRSG_Pre_Winter" \in DOMAIN ws
    /\ "GRSG_Post_Winter" \notin DOMAIN ws

\* C13 as stated: applyLekUpliftModifierPre returns, on every cell where the
\* lek presence is 1, the lek presence value itself, and on every other cell
\* (lek presence 0 or NoData) the value of the pre-project seasonal raster.
C13_Stated ==
    PreAdjusted =>
        /\ LekOverride(ws["GRSG_Pre_Winter"], surface.first,
                       LekPresenceRaster(ws), LekPresenceRaster(ws))
        /\ LekOverride(ws["GRSG_Pre_Breeding"], surface.second,
                       LekPresenceRaster(ws), LekPresenceRaster(ws))
        /\ LekOverride(ws["GRSG_Pre_Summer"], surface.third,
                       LekPresenceRaster(ws), LekPresenceRaster(ws))

\* The post-project seasonal rasters are saved; surface holds them as they
\* were before the lek adjustment.
PostAdjusted == "GRSG_Post_Winter" \in DOMAIN ws

\* The modifier the tool hands to applyLekUpliftModifierPost.
LekModifierOfTool ==
    IF sample.tool = "DebitTool_2" THEN ws["Lek_Disturbance_Modifier"]
    ELSE ws["Lek_Uplift_Modifier"]

\* C14 as stated: applyLekUpliftModifierPost returns, on every cell where
\* the lek presence is 1, the value of the lek uplift or disturbance
\* modifier, and on every other cell (lek presence 0 or NoData) the value
\* of the post-project seasonal raster.
C14_Stated ==
    PostAdjusted =>
        /\ LekOverride(ws["GRSG_Post_Winter"], surface.first,
                       LekPresenceRaster(ws), LekModifierOfTool)
        /\ LekOverride(ws["GRSG_Post_Breeding"], surface.second,
                       LekPresenceRaster(ws), LekModifierOfTool)
        /\ LekOverride(ws["GRSG_Post_Summer"], surface.third,
                       LekPresenceRaster(ws), LekModifierOfTool)

\* The lek uplift modifier of the Credit tool has been saved.
LekUpliftSaved == "Lek_Uplift_Modifier" \in DOMAIN ws

\* The uplifts the run provides, each as the pair <<pre, post>> it is the
\* difference of.
UpliftPairs ==
    (IF sample.Conifer_Treatment_Area
     THEN <<<<ConiferModifier(ws), ws["Post_Conifer_Modifier"]>>>> ELSE <<>>)
    \o (IF sample.Proposed_Modified_Features
        THEN <<<<sample.Current_Anthro_Disturbance,
                 ws["GRSG_Post_Anthro_Disturbance"]>>>>
        ELSE <<>>)

\* The scale the rasters of the seasonal steps can all be written on: that
\* of the disturbance composites.
SumScale == (CHOOSE r \in AnthroChoices : TRUE).s

\* Lek presence plus the sum of post - pre over the pairs, in cell c, on the
\* scale SumScale; NoData where one of the rasters involved holds NoData.
RECURSIVE SumOfUplifts(_, _, _)
SumOfUplifts(pairs, idx, c) ==
    IF idx = {} THEN 0
    ELSE LET i == CHOOSE x \in idx : TRUE
         IN  ValueAt(pairs[i][2], c, SumScale) - ValueAt(pairs[i][1], c, SumScale)
             + SumOfUplifts(pairs, idx \ {i}, c)

ExpectedLekUplift(pairs, lek, c) ==
    IF lek.v[c] = NoData
       \/ \E i \in DOMAIN pairs : pairs[i][1].v[c] = NoData \/ pairs[i][2].v[c] = NoData
    THEN NoData
    ELSE ValueAt(lek, c, SumScale) + SumOfUplifts(pairs, DOMAIN pairs, c)

\* The orders of a list of n uplifts.
UpliftOrders(n) == {p \in [1..n -> 1..n] : \A i, j \in 1..n : p[i] = p[j] => i = j}

\* C15: the lek uplift modifier is, cell by cell, the lek presence value
\* plus the sum of the uplifts (each post minus pre); the same raster
\* results from the uplifts in any order; with an empty list of uplifts it
\* is the lek presence raster.
C15_LekUpliftSum ==
    LekUpliftSaved =>
        /\ \A c \in Cells :
              ValueAt(ws["Lek_Uplift_Modifier"], c, SumScale)
                  = ExpectedLekUplift(UpliftPairs, LekPresenceRaster(ws), c)
        /\ Len(sample.upliftRasters) = Len(UpliftPairs)
        /\ \A p \in UpliftOrders(Len(sample.upliftRasters)) :
              calcLekUpliftModifier(
                  LekPresenceRaster(ws),
                  [i \in DOMAIN sample.upliftRasters |-> sample.upliftRasters[p[i]]])
                  = ws["Lek_Uplift_Modifier"]
        /\ sample.upliftRasters = <<>>
               => ws["Lek_Uplift_Modifier"] = LekPresenceRaster(ws)

\* Two uplifts were added, both non-zero in a cell where the lek presence
\* raster has data.
C15_Witness ==
    /\ LekUpliftSaved
    /\ Len(sample.upliftRasters) = 2
    /\ \E c \in Cells :
          /\ LekPresenceRaster(ws).v[c] # NoData
          /\ sample.upliftRasters[1].v[c] \notin {0, NoData}
          /\ sample.upliftRasters[2].v[c] \notin {0, NoData}
          /\ sample.upliftRasters[1].v[c] * sample.upliftRasters[2].s
                 # sample.upliftRasters[2].v[c] * sample.upliftRasters[1].s

-----------------------------------------------------------------------------
(* Zonal statistics.                                                       *)

\* The resampled cells of zone z that lie in cell c of the value raster.
ZoneCellsIn(z, c) ==
    {u \in ZoneCellsOf(sample.features, z) : ((u - 1) \div SubCells) + 1 = c}

\* The value cell c of raster r counts with in a mean: 0 where r is NoData.
Counted(r, c) == IF r.v[c] = NoData THEN 0 ELSE r.v[c]

RECURSIVE WeightedSum(_, _, _)
WeightedSum(r, z, cs) ==
    IF cs = {} THEN 0
    ELSE LET c == CHOOSE x \in cs : TRUE
         IN  Cardinality(ZoneCellsIn(z, c)) * Counted(r, c)
             + WeightedSum(r, z, cs \ {c})

\* The statistics table holds, for every zone that covers a cell, the mean
\* of r over the cells of the zone, NoData cells counted as 0: the constant
\* of a constant zone, 50 for a zone half NoData and half 100.
MeansOf(table, r) ==
    \A i \in DOMAIN sample.features :
        LET z == sample.features[i].id
            n == Cardinality(ZoneCellsOf(sample.features, z))
        IN  n > 0 =>
                /\ z \in DOMAIN table
                /\ table[z] * n = WeightedSum(r, z, Cells) * ZoneScale
                /\ \A V \in {r.v[c] : c \in Cells} \ {NoData} :
                      (\A c \in Cells : ZoneCellsIn(z, c) # {} => r.v[c] = V)
                          => table[z] = V * ZoneScale
                /\ (\E N \in SUBSET Cells :
                       /\ \A c \in N : r.v[c] = NoData
                       /\ \A c \in Cells \ N :
                             ZoneCellsIn(z, c) # {} => r.v[c] = 100
                       /\ 2 * Cardinality(UNION {ZoneCellsIn(z, c) : c \in N}) = n)
                       => table[z] = 50 * ZoneScale

\* The statistics table of a term has been written.
StatsWritten(term) == StatsTableOf(debitArgs, term) \in DOMAIN ws

\* C16: CalcZonalStats yields, for each zone, the mean of the raster over
\* the cells inside the zone with every NoData cell counted as 0: a zone
\* that is half NoData and half 100 yields 50, a zone on which the raster
\* is the constant V yields V.
C16_ZonalMean ==
    /\ pc = "joinPre"
           => MeansOf(ws[StatsTableOf(debitArgs, "Pre")], sample.finalPre)
    /\ pc = "joinPost"
           => MeansOf(ws[StatsTableOf(debitArgs, "Post")], sample.finalPost)

\* A zone half of whose cells hold NoData and the other half 100 has the
\* mean 50, and another zone on which the raster is constant has that value.
C16_Witness ==
    /\ pc = "joinPost"
    /\ \E i \in DOMAIN sample.features :
          LET z == sample.features[i].id
          IN  /\ Cardinality(ZoneCellsIn(z, 1)) = Cardinality(ZoneCellsIn(z, 2))
              /\ ZoneCellsIn(z, 1) # {}
              /\ ZoneCellsOf(sample.features, z) = ZoneCellsIn(z, 1) \cup ZoneCellsIn(z, 2)
              /\ sample.finalPre.v[1] = NoData
              /\ sample.finalPre.v[2] = 100
              /\ ws[StatsTableOf(debitArgs, "Pre")][z] = 50 * ZoneScale
    /\ StatsWritten("Post")
    /\ \E i \in DOMAIN sample.features :
          /\ sample.features[i].cells = SubCellIds
          /\ \A c \in Cells : sample.finalPost.v[c] = 40
          /\ ws[StatsTableOf(debitArgs, "Post")][sample.features[i].id] = 40 * ZoneScale

\* The zone of row i of the zone table covers no cell of the resampled
\* raster.
EmptyZone(i) == ZoneCellsOf(sample.features, sample.features[i].id) = {}

\* The means of the term have been joined to the zone table.
Joined(term) ==
    IF term = "Pre" THEN pc \notin {"zonalPre", "joinPre"}
    ELSE pc \notin {"zonalPre", "joinPre", "zonalPost", "joinPost"}

\* C17: a zone that covers no cell has no row in the statistics table and
\* holds <Null>, never 0, in the joined field; calcDebits never turns that
\* <Null> into a debit or credit value: the cursor does not pass the row,
\* its output field stays <Null> and no message reports a value for it.
C17_NullZone ==
    \A i \in DOMAIN zoneTable :
        EmptyZone(i) =>
            /\ StatsWritten("Pre") =>
                   sample.features[i].id
                       \notin DOMAIN ws[StatsTableOf(debitArgs, "Pre")]
            /\ Joined("Pre") => zoneTable[i][debitArgs.pre_field] = Null
            /\ Joined("Post") => zoneTable[i][debitArgs.post_field] = Null
            /\ debitArgs.out_field \in DOMAIN zoneTable[i]
                   => zoneTable[i][debitArgs.out_field] = Null
            /\ cursor < i
            /\ Len(messages) < i

\* calcDebits stopped with TypeError at the row of a zone that covers no
\* cell, after it wrote the value of a zone that covers cells.
C17_Witness ==
    /\ pc = "TypeError"
    /\ \E i \in DOMAIN zoneTable :
          /\ EmptyZone(i)
          /\ cursor = i - 1
          /\ cursor > 0
          /\ zoneTable[i][debitArgs.pre_field] = Null
          /\ zoneTable[1][debitArgs.out_field] # Null

\* Row i of the zone table as it was before the zonal statistics.
OriginalRow(i) ==
    ZonalRow(debitArgs, sample.leftover, ZoneIdOf(debitArgs, i))

\* The value the join gives row i from a statistics table.
JoinedValue(table, i) ==
    IF zoneTable[i][sample.zone_field] \in DOMAIN table
    THEN table[zoneTable[i][sample.zone_field]] ELSE Null

\* The zone table holds exactly one field named field, whatever the case,
\* with the mean of the statistics table, and no field MEAN.
OneMeanField(table, field) ==
    \A i \in DOMAIN zoneTable :
        /\ {f \in DOMAIN zoneTable[i] : Lower(f) = Lower(field)} = {field}
        /\ zoneTable[i][field] = JoinedValue(table, i)
        /\ "MEAN" \notin DOMAIN zoneTable[i]

\* The fields of the original table that the joins of the given fields do
\* not name are in the table with their original values.
OthersUnchanged(fields) ==
    \A i \in DOMAIN zoneTable :
        \A f \in DOMAIN OriginalRow(i) :
            (f # "MEAN" /\ \A g \in fields : Lower(f) # Lower(g))
                => /\ f \in DOMAIN zoneTable[i]
                   /\ zoneTable[i][f] = OriginalRow(i)[f]

\* C18: after JoinMeanToTable the table has exactly one field named
\* field_name (whatever the case) that holds the newly joined mean, no field
\* MEAN, and every other field as before; a second call with the same
\* statistics table leaves the table as it is.
C18_JoinMean ==
    /\ pc = "zonalPost" =>
           /\ OneMeanField(ws[StatsTableOf(debitArgs, "Pre")],
                           debitArgs.pre_field)
           /\ OthersUnchanged({debitArgs.pre_field})
           /\ DOMAIN zoneTable[1] \subseteq
                  DOMAIN OriginalRow(1) \cup {debitArgs.pre_field}
    /\ pc = "calcDebits" =>
           /\ OneMeanField(ws[StatsTableOf(debitArgs, "Pre")],
                           debitArgs.pre_field)
           /\ OneMeanField(ws[StatsTableOf(debitArgs, "Post")],
                           debitArgs.post_field)
           /\ OthersUnchanged({debitArgs.pre_field, debitArgs.post_field})
           /\ DOMAIN zoneTable[1] \subseteq
                  DOMAIN OriginalRow(1)
                      \cup {debitArgs.pre_field, debitArgs.post_field}
    /\ Joined("Pre") =>
           JoinMeanToTable(zoneTable, ws[StatsTableOf(debitArgs, "Pre")],
                           sample.zone_field, debitArgs.pre_field) = zoneTable
    /\ Joined("Post") =>
           JoinMeanToTable(zoneTable, ws[StatsTableOf(debitArgs, "Post")],
                           sample.zone_field, debitArgs.post_field) = zoneTable

\* A join into a table that held the field in another case and a MEAN
\* field, and gave some row a mean.
C18_Witness ==
    /\ pc = "zonalPost"
    /\ sample.leftover = "lower and MEAN"
    /\ \E i \in DOMAIN zoneTable :
          zoneTable[i][debitArgs.pre_field] \notin {Null, 0, 7}

-----------------------------------------------------------------------------
(* The order and the names of the rasters a run saves.                     *)

\* The entries of the list that saved a raster under a name of the
\* workspace: all but those of the composite and of the uplift, which are
\* raster objects of main() and have no name until main() saves them.
Saves == {i \in DOMAIN written : written[i].stage \notin InMemory}

\* The entries that saved the name.
WritesOf(name) == {i \in Saves : written[i].name = name}

\* C20: within one run every named artifact of the workspace (the subtype
\* and type rasters of a term, temp_masked_raster, ...) is written by at
\* most one stage invocation, over the Pre, Post and LekDisturbanceModifier
\* calls and over the sage-grouse, mule-deer PJ and mule-deer open contexts.
C20_Stated ==
    \A i \in Saves : WritesOf(written[i].name) = {i}

\* The same, for the names that one call saves only: no call saves a name
\* twice, apart from temp_masked_raster.
C20_WithinCall ==
    \A i, j \in Saves :
        (/\ written[i].name = written[j].name
         /\ written[i].by = written[j].by
         /\ written[i].name # "temp_masked_raster") => i = j

\* The Post call and the LekDisturbanceModifier call of a sage-grouse run
\* have both saved the same type raster.
C20_LekOverwrites ==
    \E i, j \in DOMAIN written :
        /\ written[i].by = "grsgPost" /\ written[j].by = "grsgLek"
        /\ written[i].stage = "type"
        /\ written[i].name = written[j].name

\* The PJ call and the open call of a mule-deer run have both saved the same
\* subtype raster.
C20_OpenOverwrites ==
    \E i, j \in DOMAIN written :
        /\ written[i].by = "mulePJPre" /\ written[j].by = "muleOpenPre"
        /\ written[i].stage = "subtype"
        /\ written[i].name = written[j].name

\* One call has saved temp_masked_raster twice.
C20_MaskOverwrites ==
    \E i, j \in DOMAIN written :
        /\ i < j /\ written[i].by = written[j].by
        /\ written[i].name = "temp_masked_raster"
        /\ written[j].name = "temp_masked_raster"

\* The entries of the list made by one step of main() at one stage.
EntriesOf(by, stage) ==
    {i \in DOMAIN written : written[i].by = by /\ written[i].stage = stage}

\* The entry reads only what exists: each of its inputs is a dataset the
\* run started with, or was made by an earlier entry.
ReadsEarlier(i) ==
    \A n \in written[i].inputs :
        \/ n \in DOMAIN InitialWorkspace
        \/ n = PROPOSED_MODIFIED_FEATURES
        \/ \E j \in 1..(i - 1) : written[j].name = n

\* A type raster is made from subtype rasters that the same call saved
\* before it.
TypeAfterSubtypes(i) ==
    /\ written[i].inputs # {}
    /\ \A n \in written[i].inputs :
           \E j \in EntriesOf(written[i].by, "subtype") :
               j < i /\ written[j].name = n

\* The composite of a call is made from every type raster of the call, all
\* of them saved before it, as are the subtype rasters of the call.
CompositeAfterTypes(i) ==
    /\ written[i].inputs =
           {written[j].name : j \in EntriesOf(written[i].by, "type")}
    /\ \A j \in EntriesOf(written[i].by, "type")
               \cup EntriesOf(written[i].by, "subtype") : j < i

\* The uplift is made from the saved Pre and Post composites, after every
\* entry of the Pre call and of the Post call.
UpliftAfterComposites(i) ==
    /\ \A n \in written[i].inputs :
           \E j \in 1..(i - 1) :
               written[j].stage = "result" /\ written[j].name = n
    /\ \E j \in EntriesOf("creditPre", "result") :
           written[j].name = CURRENT_ANTHRO_DISTURBANCE
    /\ \A j \in DOMAIN written :
           written[j].by \in {"creditPre", "creditPost"} => j < i

\* The list of type rasters the last call multiplied holds the rasters that
\* are saved under the type names of the call.
CompositeOfSaved ==
    /\ Len(call.rasterList) = Len(call.typeNames)
    /\ \A k \in DOMAIN call.rasterList :
           call.rasterList[k] =
               ws[call.args.term \o "_" \o call.typeNames[k]
                      \o "_Type_Disturbance"]
    /\ call.result # "" => ws[call.result] = call.anthroRaster

\* C19: in every run of the credit pipeline, within one CalcAnthroDisturbance
\* call every type raster is complete before the composite is formed, the
\* Pre composite is complete before the uplift (Post - Pre) is computed, and
\* no stage reads a raster that is made later.
C19_StageOrder ==
    /\ \A i \in DOMAIN written :
           /\ ReadsEarlier(i)
           /\ written[i].stage = "type" => TypeAfterSubtypes(i)
           /\ written[i].stage = "composite" => CompositeAfterTypes(i)
           /\ written[i].stage = "result" =>
                  i - 1 \in EntriesOf(written[i].by, "composite")
           /\ written[i].stage = "uplift" => UpliftAfterComposites(i)
    /\ CompositeOfSaved
    /\ (pc = "done" /\ proposed # {}) =>
           /\ EntriesOf("creditUplift", "uplift") # {}
           /\ surface = SSub(ws[PROJECTED_ANTHRO_DISTURBANCE],
                             ws[CURRENT_ANTHRO_DISTURBANCE])

\* A run that has computed the uplift, after a Pre call and a Post call
\* that each made two type rasters.
C19_Witness ==
    /\ pc = "done"
    /\ EntriesOf("creditUplift", "uplift") # {}
    /\ Cardinality(EntriesOf("creditPre", "type")) = 2
    /\ Cardinality(EntriesOf("creditPost", "type")) = 2
    /\ Cardinality(EntriesOf("creditPost", "subtype")) = 3

-----------------------------------------------------------------------------
(* Failures.                                                               *)

\* The zones whose result field holds a value.
ZonesWritten ==
    {i \in 1..Len(zoneTable) :
        /\ debitArgs.out_field \in DOMAIN zoneTable[i]
        /\ zoneTable[i][debitArgs.out_field] # Null}

\* C21: if a stage fails, also while calcDebits is updating rows, the run
\* aborts and the zone attribute table holds no partial output: the result
\* field is written for all zones or for none.
C21_Stated ==
    pc = "TypeError" =>
        \/ ZonesWritten = {}
        \/ ZonesWritten = 1..Len(zoneTable)

\* calcDebits has failed on a later row after it wrote the first.
C21_PartialOutput ==
    /\ pc = "TypeError"
    /\ 1 \in ZonesWritten
    /\ cursor + 1 \notin ZonesWritten

\* The subtypes of the proposed features that have no row in the Parameter
\* Values table.
UnlistedProposed ==
    {f.Subtype : f \in proposed}
        \ {Parameter_Values[i].Subtype : i \in DOMAIN Parameter_Values}

\* The entries of the list that are disturbance surfaces.
DisturbanceSurfaces ==
    {i \in DOMAIN written :
        written[i].stage \in {"subtype", "type", "composite", "result"}}

\* C22: if the proposed features contain a Subtype that has no row in the
\* Parameter Table, the run aborts with an error before any disturbance
\* surface is produced; the subtype is never silently ignored.
C22_Stated ==
    UnlistedProposed # {} =>
        /\ DisturbanceSurfaces = {}
        /\ pc \in {"convertProposed", "combineProposed", "RuntimeError"}

\* The run has ended without an error, and no call has read the rasters of
\* the unlisted subtype.
C22_Ignored ==
    /\ UnlistedProposed # {}
    /\ pc = "done"
    /\ \A i \in DisturbanceSurfaces :
           \A s \in UnlistedProposed :
               written[i].inputs
                   \cap {"Proposed_" \o s, "Post_" \o s, AnthroPath(s)} = {}
    /\ species = "GrSG" =>
           /\ ws["GRSG_Post_Anthro_Disturbance"]
                  = ws["GRSG_Pre_Anthro_Disturbance"]
           /\ ws["Lek_Disturbance_Modifier"] = SR(1, ConstRaster(1))

\* The run has stopped in combineProposedWithCurrentDebit.
C22_Aborted == pc = "RuntimeError" /\ DisturbanceSurfaces = {}

\* The raster has a value in every cell of the analysis extent.
Defined(r) == \A c \in Cells : r.v[c] # NoData

\* The names under which the run has saved a raster at one of the stages.
SavedAt(stages) ==
    {written[i].name : i \in {j \in Saves : written[j].stage \in stages}}

\* C23: no NoData cell enters a multiplicative chain: every subtype surface,
\* type surface and composite disturbance surface has a value at every cell
\* of the analysis extent, also in the masked mule-deer variant.
C23_Stated ==
    \A n \in SavedAt({"subtype", "type", "result", "openOnly", "minimum"}) :
        n \in DOMAIN ws => Defined(ws[n])

\* The same for the surfaces that one CalcAnthroDisturbance call makes: the
\* subtype rasters, the type rasters and the composite it returns.
C23_WithinCall ==
    \A n \in SavedAt({"subtype", "type", "result"}) :
        n \in DOMAIN ws => Defined(ws[n])

\* The combined mule-deer composite has a NoData cell where the open-habitat
\* raster has none.
C23_OpenNoData ==
    /\ "MuleDeer_Pre_Anthro_Disturbance" \in DOMAIN ws
    /\ \E c \in Cells :
          /\ BWMD_Open(ws).v[c] = NoData
          /\ ws["MuleDeer_Pre_Anthro_Disturbance"].v[c] = NoData
          /\ ws["MuleDeer_Pre_Anthro_Disturbance_P"].v[c] # NoData
          /\ ws["MuleDeer_Pre_Anthro_Disturbance_O"].v[c] # NoData

\* The rasters of InputData.gdb in the workspace.
InputNames == {n \in DOMAIN ws : SubSeq(n, 1, 14) = "InputData.gdb/"}

C24_DatasetsKept ==
    [][/\ InputNames \subseteq DOMAIN ws'
       /\ \A n \in InputNames : ws'[n] = ws[n]
       /\ pc \in {"zonalPre", "joinPre", "zonalPost", "joinPost"}
              => sample' = sample]_vars

\* main() goes on to the post-project lek adjustment with the sum in place
\* of the lek-presence surface.
C24_LekReplaced ==
    /\ pc = "creditSeasonalPost"
    /\ sample.LekPresenceRaster = ws["Lek_Uplift_Modifier"]
    /\ sample.LekPresenceRaster # LekPresenceRaster(ws)

-----------------------------------------------------------------------------
(* Credit Tool 2, mule deer: the Post composite.                            *)

\* The cells within the larger of the two mule-deer distances of the
\* subtype of a proposed feature, measured from the feature.
Influenced ==
    {c \in Cells :
        \E f \in proposed, i \in Rows :
            /\ Parameter_Values[i].Subtype = f.Subtype
            /\ LET d == IF c >= f.cell THEN (c - f.cell) * CellSize
                        ELSE (f.cell - c) * CellSize
               IN  \/ d <= Parameter_Values[i].MDP_Dist
                   \/ d <= Parameter_Values[i].MDO_Dist}

\* The run of Credit Tool 2 for mule deer has saved the Post composite.
MulePostSaved ==
    /\ pc = "done"
    /\ PROJECTED_ANTHRO_DISTURBANCE_MD \in DOMAIN ws
    /\ call.result = PROJECTED_ANTHRO_DISTURBANCE_MD

\* C25: in Credit Tool 2 the mule-deer Post composite is computed by the
\* rule of the Pre composite (the cellwise minimum of the pinyon-juniper
\* composite and the open composite restricted to open habitat) with the
\* proposed subtypes taken into account, so that Post equals Pre in every
\* cell that no proposed feature influences.
C25_Stated ==
    MulePostSaved =>
        /\ unique_proposed_subtypes = {f.Subtype : f \in proposed}
        /\ \A c \in Cells \ Influenced :
              LET pre == ws[CURRENT_ANTHRO_DISTURBANCE_MD]
                  post == ws[PROJECTED_ANTHRO_DISTURBANCE_MD]
                  S == CommonScale(pre, post)
              IN  ValueAt(post, c, S) = ValueAt(pre, c, S)

\* What the code does instead: Post is the composite of one unmasked call
\* with the open-habitat fields and an empty list of proposed subtypes.
C25_PostIsOpenCall ==
    MulePostSaved =>
        /\ call.args.dist_field = "MDO_Dist"
        /\ call.args.weight_field = "MDO_Weight"
        /\ call.args.mask = None
        /\ unique_proposed_subtypes = {}
        /\ ~ (\E i \in DOMAIN written : written[i].by = "creditMulePost"
                                         /\ written[i].stage = "minimum")

\* A run in which Post and Pre both have data and differ in a cell outside
\* the influence of the proposed feature.
C25_PostDiffers ==
    /\ MulePostSaved
    /\ \E c \in Cells \ Influenced :
          LET pre == ws[CURRENT_ANTHRO_DISTURBANCE_MD]
              post == ws[PROJECTED_ANTHRO_DISTURBANCE_MD]
              S == CommonScale(pre, post)
          IN  /\ pre.v[c] # NoData
              /\ post.v[c] # NoData
              /\ ValueAt(post, c, S) # ValueAt(pre, c, S)

-----------------------------------------------------------------------------
(* CheckPolygonInput.                                                       *)

\* One of the five conditions holds for the layer that was checked last, in
\* the workspace it was checked in.
Rejected ==
    LET feature == sample.provided[call.checked]
        args == CheckArgs(sample.tool)[call.checked]
    IN  \/ feature.shapeType # "Polygon"
        \/ feature.rows = <<>>
        \/ \E field \in Range(args.required_fields) :
              field \notin feature.fields
        \/ \E field \in Range(args.no_null_fields) \cap feature.fields :
              \E i \in DOMAIN feature.rows : feature.rows[i][field] = Null
        \/ \E fc \in Range(args.expected_fcs) : fc \notin DOMAIN call.workspace

C26_ExitAfterAdopt ==
    /\ pc = "exit"
    /\ call.checked = 2
    /\ ws # sample.workspace

-----------------------------------------------------------------------------
(* CalcAnthroDisturbance: the feature raster of each subtype.               *)

\* The evaluations of the last call that are of the subtype.
EvalsOf(subtype) ==
    {i \in DOMAIN call.evals : call.evals[i].Subtype = subtype}

\* The last call, made again with another list of proposed subtypes.
Recalled(proposedSubtypes) ==
    CalcAnthroDisturbance(
        [CallArgs(call.args.term, call.args.anthro_disturbance_type,
                  call.args.dist_field, call.args.weight_field,
                  call.args.mask)
            EXCEPT !.unique_proposed_subtypes = proposedSubtypes],
        ws)

\* C27: a call of CalcAnthroDisturbance evaluates every subtype of the
\* Parameter Values table whose Type is not "N/A" once, under the Type of
\* its row, and no subtype whose Type is "N/A"; for Pre it reads the current
\* feature raster of the subtype, so that the Pre composite is the one the
\* call gives with any part of the list of proposed subtypes, the empty
\* list included; for Post it reads "Post_<subtype>" for
\* a proposed subtype and the current raster otherwise; for
\* LekDisturbanceModifier it reads "Proposed_<subtype>" for a proposed
\* subtype, and a subtype that is not proposed contributes no raster.
C27_SourceByTerm ==
    call # NoCall =>
        /\ \A i \in Rows :
              LET row == Parameter_Values[i]
              IN  IF row.Type = "N/A" THEN EvalsOf(row.Subtype) = {}
                  ELSE /\ Cardinality(EvalsOf(row.Subtype)) = 1
                       /\ \A e \in EvalsOf(row.Subtype) :
                             call.evals[e].Type = row.Type
        /\ \A e \in DOMAIN call.evals :
              LET eval == call.evals[e]
                  isProposed == eval.Subtype \in unique_proposed_subtypes
                  kind == call.args.anthro_disturbance_type
              IN  /\ kind = "Pre" =>
                         eval.features = AnthroPath(eval.Subtype)
                  /\ (kind = "Post" /\ isProposed) =>
                         eval.features = "Post_" \o eval.Subtype
                  /\ (kind = "Post" /\ ~ isProposed) =>
                         eval.features = AnthroPath(eval.Subtype)
                  /\ (kind = "LekDisturbanceModifier" /\ isProposed) =>
                         eval.features = "Proposed_" \o eval.Subtype
                  /\ (kind = "LekDisturbanceModifier" /\ ~ isProposed) =>
                         (eval.features = NoFeatures /\ eval.raster = None)
        /\ call.args.anthro_disturbance_type = "Pre" =>
              \A proposedSubtypes \in SUBSET unique_proposed_subtypes :
                  Recalled(proposedSubtypes).anthroRaster = call.anthroRaster

\* A Post call on a table with an "N/A" row that read a "Post_" raster for
\* the proposed subtype and a current raster for another one, after a Pre
\* call made with the same non-empty list of proposed subtypes.
C27_Witness ==
    /\ call # NoCall
    /\ call.args.anthro_disturbance_type = "Post"
    /\ unique_proposed_subtypes # {}
    /\ \E i \in Rows : Parameter_Values[i].Type = "N/A"
    /\ \E e \in DOMAIN call.evals :
          call.evals[e].features = "Post_" \o call.evals[e].Subtype
    /\ \E e \in DOMAIN call.evals :
          call.evals[e].features = AnthroPath(call.evals[e].Subtype)
    /\ \E i \in DOMAIN written : written[i].by = "grsgPre"

\* A LekDisturbanceModifier call in which a subtype that is not proposed
\* was passed over.
C27_LekPassedOver ==
    /\ call # NoCall
    /\ call.args.anthro_disturbance_type = "LekDisturbanceModifier"
    /\ \E e \in DOMAIN call.evals : call.evals[e].features = NoFeatures
    /\ \E e \in DOMAIN call.evals :
          call.evals[e].features = "Proposed_" \o call.evals[e].Subtype

-----------------------------------------------------------------------------
(* Credit Tool 2: the features proposed for removal.                        *)

\* The cells where a feature of the subtype is proposed for removal.
RemovedAt(subtype) == {f.cell : f \in {g \in proposed : g.Subtype = subtype}}

\* "Post_<subtype>" is the current raster of the subtype without the cells
\* of the features proposed for removal.
PostWithoutRemoved ==
    \A subtype \in unique_proposed_subtypes :
        \A c \in Cells :
            ws["Post_" \o subtype].v[c] =
                IF c \in RemovedAt(subtype) THEN NoData
                ELSE ws[AnthroPath(subtype)].v[c]

\* The Post composite is nowhere below the Pre composite.
PostNotBelowPre ==
    LET pre == ws[CURRENT_ANTHRO_DISTURBANCE]
        post == ws[PROJECTED_ANTHRO_DISTURBANCE]
        S == CommonScale(pre, post)
    IN  \A c \in Cells :
            /\ post.v[c] # NoData
            /\ pre.v[c] # NoData
            /\ ValueAt(post, c, S) >= ValueAt(pre, c, S)

\* C28: in a credit run "Post_<subtype>" of every proposed subtype is NoData
\* in the cells where a feature proposed for removal was rasterized and the
\* current raster elsewhere, and the Post composite is nowhere below the Pre
\* composite.
C28_Stated ==
    /\ (pc \in {"creditPost", "creditUplift", "done"} /\ proposed # {})
           => PostWithoutRemoved
    /\ (pc \in {"creditUplift", "done"} /\ proposed # {}) => PostNotBelowPre

\* A feature proposed for removal lies on a current feature of its subtype,
\* and "Post_<subtype>" still holds that feature.
C28_NotRemoved ==
    /\ pc = "done"
    /\ \E f \in proposed :
          /\ ws[AnthroPath(f.Subtype)].v[f.cell] = 1
          /\ ws["Post_" \o f.Subtype].v[f.cell] = 1
          /\ ws[PROJECTED_ANTHRO_DISTURBANCE] = ws[CURRENT_ANTHRO_DISTURBANCE]

\* With Weight 1 on every feature proposed for removal, "Post_<subtype>" is
\* the current raster without the cells of those features.
C28_WeightOne ==
    (pc \in {"creditPost", "creditUplift", "done"}
        /\ \A f \in proposed : f.Weight = 1) => PostWithoutRemoved

\* With Weight 1 on every feature proposed for removal, the Post composite
\* is nowhere below the Pre composite.
C28_WeightOneNotBelow ==
    (pc \in {"creditUplift", "done"} /\ proposed # {}
        /\ \A f \in proposed : f.Weight = 1) => PostNotBelowPre

-----------------------------------------------------------------------------
(* Credit Tool 2: the post-project seasonal surfaces.                       *)

\* The fields joined to Map_Units_Dissolve so far.
FieldsJoined ==
    {written[i].name : i \in {j \in DOMAIN written : written[j].stage = "join"}}

\* The post-project seasonal rasters are saved and their fields joined.
PostSeasonsDone ==
    /\ {"GRSG_Post_Winter", "GRSG_Post_Breeding", "GRSG_Post_Summer"}
           \subseteq DOMAIN ws
    /\ {"GrSG_Post_Winter", "GrSG_Post_Breed", "GrSG_Post_Summer"}
           \subseteq FieldsJoined

\* A sage-grouse run of Credit Tool 2 has ended.
CreditRunEnded ==
    /\ pc = "done"
    /\ species = "GrSG"
    /\ sample.tool = "CreditTool_2"

\* C29: when a sage-grouse run of Credit Tool 2 with an uplift source (a
\* Conifer_Treatment_Area or a Proposed_Modified_Features layer) ends, the
\* post-project seasonal surfaces have been computed and the fields
\* GrSG_Post_Winter, GrSG_Post_Breed and GrSG_Post_Summer joined.
C29_Stated ==
    (CreditRunEnded /\ (sample.Conifer_Treatment_Area
                           \/ sample.Proposed_Modified_Features))
        => PostSeasonsDone

\* What the code does: the post-project surfaces and fields are made
\* exactly when Conifer_Treatment_Area or a dataset named
\* Anthro_Features_Removed exists.
C29_ByDatasets ==
    CreditRunEnded =>
        /\ PostSeasonsDone <=> (sample.Conifer_Treatment_Area
                                   \/ sample.Anthro_Features_Removed)
        /\ {"GrSG_Pre_Winter", "GrSG_Pre_Breed", "GrSG_Pre_Summer"}
               \subseteq FieldsJoined

\* A run with Proposed_Modified_Features, and with an anthropogenic uplift,
\* that ended without any post-project seasonal surface or field.
C29_Skipped ==
    /\ CreditRunEnded
    /\ sample.Proposed_Modified_Features
    /\ Len(sample.upliftRasters) = 1
    /\ "GRSG_Post_Anthro_Disturbance" \in DOMAIN ws
    /\ {"GRSG_Post_Winter", "GRSG_Post_Breeding", "GRSG_Post_Summer"}
           \cap DOMAIN ws = {}
    /\ {"GrSG_Post_Winter", "GrSG_Post_Breed", "GrSG_Post_Summer"}
           \cap FieldsJoined = {}

-----------------------------------------------------------------------------
(* Debit Tool 2: the Post composite against the Pre composite.              *)

\* The second raster is nowhere above the first, where both have data.
NotAbove(preName, postName) ==
    LET pre == ws[preName]
        post == ws[postName]
        S == CommonScale(pre, post)
    IN  \A c \in Cells :
            (pre.v[c] # NoData /\ post.v[c] # NoData) =>
                ValueAt(post, c, S) <= ValueAt(pre, c, S)

\* Both composites of the species are saved.
CompositesSaved ==
    \/ species = "GrSG" /\ pc \in {"grsgLek", "done"}
    \/ species = "Mule" /\ pc = "done"

\* The Post composite of the species is nowhere above the Pre composite.
PostNotAbovePre ==
    IF species = "GrSG"
    THEN NotAbove("GRSG_Pre_Anthro_Disturbance",
                  "GRSG_Post_Anthro_Disturbance")
    ELSE NotAbove("MuleDeer_Pre_Anthro_Disturbance",
                  "MuleDeer_Post_Anthro_Disturbance")

\* C30: in a debit run with every weight of the Parameter Values table in
\* 0..100 the Post composite disturbance is nowhere above the Pre
\* composite, so that no seasonal, cumulative or zonal value rises and no
\* value calcDebits writes is negative.
C30_Stated == CompositesSaved => PostNotAbovePre

\* A sage-grouse run whose Post composite is above the Pre composite in the
\* cell of the proposed features, where two type rasters are negative.
C30_PostAbove ==
    /\ species = "GrSG"
    /\ pc = "done"
    /\ \A i \in Rows : /\ Parameter_Values[i].GrSG_Weight \in 0..100
                       /\ Parameter_Values[i].Weight \in WeightColumn
    /\ \E c \in Cells :
          LET pre == ws["GRSG_Pre_Anthro_Disturbance"]
              post == ws["GRSG_Post_Anthro_Disturbance"]
              S == CommonScale(pre, post)
          IN  /\ pre.v[c] # NoData
              /\ post.v[c] # NoData
              /\ ValueAt(post, c, S) > ValueAt(pre, c, S)
              /\ Cardinality({t \in DOMAIN call.rasterList :
                                  call.rasterList[t].v[c] < 0}) = 2

\* With the joined Weight 1 on every proposed feature the Post composite is
\* nowhere above the Pre composite.
C30_WeightOne ==
    (CompositesSaved /\ \A f \in proposed : f.Weight = 1) => PostNotAbovePre

=============================================================================
